---- MODULE Spec2Model ----
(***************************************************************************)
(* Task orchestration and import pipeline of misaka_danmu_server           *)
(* (src/src/tasks.py).  One job at a time is followed through the task     *)
(* function it runs (specification Spec); the submission queue with its    *)
(* unique keys is followed for several jobs (specification SpecTM).        *)
(*                                                                         *)
(* Collaborators whose code is not part of src/ (task_manager, rate_limiter,*)
(* crud, the scrapers, the metadata manager) are modelled by their         *)
(* contract: a provider call is a nondeterministic choice of its result.   *)
(***************************************************************************)
EXTENDS Integers, Sequences, FiniteSets, TLC

\* ------------------------------------------------------------------ bounds
MaxEps == 2        \* longest episode list a provider / a request returns
MaxIdx == 2        \* episode indices are 1..MaxIdx
MaxComments == 1   \* a fetch returns 0..MaxComments comments
RateLimit == 1     \* the provider's configured calls per window
Period == 2        \* length of the rate window, in clock ticks
MaxJobs == 3       \* job records the manager keeps (SpecTM)
MaxMedia == 1      \* media ids per provider that imports are submitted for (SpecTM)
MaxRows == 2       \* episodes of the source that is reordered (SpecReorder)
MaxBulk == 2       \* items of a bulk episode delete (SpecBulk)
MaxRangeIdx == 4   \* episode indices handed to the range string are 1..MaxRangeIdx
MaxRangeLen == 3   \* longest list handed to the range string (SpecRange)
MaxSources == 3    \* anime_sources rows the migration finds (SpecMigrate)
MaxRuns == 3       \* times the migration is started (SpecMigrate)
ConcJobs == 2      \* jobs running at once against one provider (SpecConc)
MaxCodecLen == 2   \* longest comment list handed to the generator (SpecCodec)

\* ------------------------------------------------------------- state
VARIABLES
    kind,        \* the task function the job runs
    pc,          \* the job's position in it
    status,      \* Job.status as kept by the task manager
    outcome,     \* how the task function ended: none/success/fault/returned
    msg,         \* the message carried by TaskSuccess or by the fault
    lastPct,     \* the percent of the latest progress_callback call
    target,      \* currentEpisodeIndex: <<>> is None, <<n>> is n
    mediaType,   \* "movie" or "tv_series"
    imageUrl,    \* whether an imageUrl was given
    imageFailed, \* image_download_failed
    episodes,    \* the episode list handed to _process_episode_list
    i,           \* loop index of _process_episode_list
    added,       \* total_comments_added
    failedCnt,   \* failed_episodes_count
    dp,          \* the provider's latest danmaku_progress for this fetch
    comments,    \* len(comments) of the current fetch
    wait,        \* retry_after_seconds of the rate-limit signal being served
    fetchFaults, \* fetches of this job that raised a fault
    failoverCalls, \* calls of get_failover_comments / find_new_media_id
    rawLen,      \* episodes in the provider's latest listing (<<>>: none yet)
    sess,        \* catalog rows as the job's session sees them
    disk,        \* catalog rows as committed
    pre,         \* the committed catalog before the job started
    rlCount,     \* rate limiter: calls counted in the current window
    rlReset,     \* rate limiter: ticks until the window ends (0: no window)
    jobs,        \* SpecTM: the manager's job records
    lastSubmit,  \* SpecTM: the latest submission and what became of it
    rlIncs,      \* SpecRL: increments recorded since the provider's window opened
    rl2,         \* SpecRL: the budget of a second provider (count, reset, incs)
    rlLast,      \* SpecRL: the latest check and how it ended
    custom,      \* manual imports: providerName == 'custom'
    items,       \* manual imports: the caller's items (content and episode index)
    roDialect,   \* reorder: session.bind.dialect.name
    roFk,        \* reorder: referential-integrity checking is enabled on the session
    roAll,       \* reorder: ids of the sources of the work (the source's own is SourceId)
    roRows,      \* reorder: the committed episode rows of the source
    roFiles,     \* reorder: the track files on disk, by the identity in their name
    roPre,       \* reorder: rows and files before the task started
    roK,         \* reorder: position in episodes_to_migrate
    roDel,       \* reorder: old_episodes_to_delete
    roAdd,       \* reorder: new_episodes_to_add
    roPending,   \* reorder: what was raised inside the inner try
    roRun,       \* reorder: 1 for the first run on the source, 2 for a run after it
    idArgs,      \* SpecId: two (animeId, sourceOrder, episodeIndex) triples
    idOut,       \* SpecId: the identities computed for them (<<>>: not yet)
    bkIds,       \* bulk delete: episodeIds
    bkRows,      \* bulk delete: the committed episode rows
    bkSess,      \* bulk delete: the rows as the session sees them
    bkFiles,     \* bulk delete: ids of the episodes whose track file exists
    bkCount,     \* bulk delete: deleted_count
    bkTries,     \* bulk delete: times the current item's deletion was attempted
    daAttempt,   \* delete_anime_task: attempt (0-based, as in the code)
    daWaits,     \* delete_anime_task: the wait_time of each sleep so far
    daRow,       \* delete_anime_task: the Anime row is in the committed table
    daSess,      \* delete_anime_task: the Anime row as the session sees it
    daDir,       \* delete_anime_task: the work's track-file directory: none/empty/files
    rgIn,        \* SpecRange: episode_indices
    rgOut,       \* SpecRange: the range string, as its tokens (<<>>: not yet)
    cdIn,        \* SpecCodec: the comments handed to the generator
    cdOut,       \* SpecCodec: the comments the parser returns (<<>>: not yet)
    asIn,        \* auto import: the payload and what the lookups will find
    asLock,      \* auto import: the search lock of api_key is held
    asReleases,  \* auto import: calls of release_search_lock so far
    asSubmits,   \* auto import: the import jobs this task got accepted
    mgDialect,   \* migration: db_type
    mgRows,      \* migration: the anime_sources rows (id, anime_id)
    mgDb,        \* migration: committed schema and source_order values
    mgTx,        \* migration: the same as the open transaction sees them
    mgPc,        \* migration: position in _migrate_add_source_order
    mgK,         \* migration: rows updated so far by the backfill
    mgRuns,      \* migration: runs started so far
    cj,          \* SpecConc: each concurrent job's position, episodes left and wait
    roOther,     \* reorder: episode rows of the work's other sources
    daPre,       \* delete_anime_task: the row and the directory before the task
    bs           \* delete_bulk_sources_task: the tables before it, faults, session state

jobVars == <<kind, pc, status, outcome, msg, lastPct, target, mediaType,
             imageUrl, imageFailed, episodes, i, added, failedCnt, dp,
             comments, wait, fetchFaults, failoverCalls, rawLen, sess, disk,
             pre, rlCount, rlReset>>
tmVars == <<jobs, lastSubmit>>
rlgVars == <<rlIncs, rl2, rlLast>>
miVars == <<custom, items>>
roVars == <<roDialect, roFk, roAll, roRows, roFiles, roPre, roK, roDel, roAdd,
           roPending, roRun>>
idVars == <<idArgs, idOut>>
bkVars == <<bkIds, bkRows, bkSess, bkFiles, bkCount, bkTries>>
daVars == <<daAttempt, daWaits, daRow, daSess, daDir>>
pureVars == <<rgIn, rgOut, cdIn, cdOut>>
asVars == <<asIn, asLock, asReleases, asSubmits>>
mgVars == <<mgDialect, mgRows, mgDb, mgTx, mgPc, mgK, mgRuns>>
lateVars == <<asVars, mgVars, cj, roOther, daPre, bs>>
moreVars == <<daVars, pureVars, lateVars>>
auxVars == <<rlgVars, miVars, roVars, idVars, bkVars, moreVars>>
\* what the limiter's own steps leave alone, apart from the job
rlOthers == <<tmVars, miVars, roVars, idVars, bkVars, moreVars>>
vars == <<jobVars, tmVars, auxVars>>

None == <<>>
Some(n) == <<n>>
Min(a, b) == IF a < b THEN a ELSE b
Max(a, b) == IF a > b THEN a ELSE b

Terminal == {"SUCCESS", "FAILED"}
Statuses == {"PENDING", "RUNNING", "PAUSED"} \cup Terminal
ImportKinds == {"generic", "edited", "incremental"}
LoopKinds == ImportKinds \cup {"full_refresh"}
Kinds == LoopKinds \cup {"refresh_episode"}

EpIdx == 1..MaxIdx
\* ProviderEpisodeInfo: the episode index and the provider's own episode id
\* (here: the position in the provider's answer).
RECURSIVE SeqsUpTo(_, _)
SeqsUpTo(S, n) ==
    IF n = 0 THEN {<<>>}
    ELSE LET shorter == SeqsUpTo(S, n - 1)
         IN shorter \cup {Append(s, x) : s \in {t \in shorter : Len(t) = n - 1}, x \in S}
EpId(k) == <<"ep1", "ep2", "ep3", "ep4", "ep5">>[k]
ProviderLists ==
    {[k \in 1..Len(s) |-> [episodeIndex |-> s[k], episodeId |-> EpId(k)]] :
        s \in SeqsUpTo(EpIdx, MaxEps)}

EmptyDb == [anime |-> FALSE, source |-> FALSE, mediaId |-> "m1", eps |-> {}]


\* ------------------------------------------------- task manager (spec 4.1)
\* report(percent, message, status?): the record takes the percent; the
\* optional status override signals PAUSED, a report without one is the
\* report of a running job.
ReportStatus(st) == IF st = "none" THEN "RUNNING" ELSE st
Report(p, st) ==
    /\ lastPct' = p
    /\ status' = ReportStatus(st)

\* Completion protocol: TaskSuccess is the only non-error way a job ends; any
\* other fault, and a normal return, marks the job FAILED.
RaiseTaskSuccess(m) ==
    /\ outcome' = "success"
    /\ msg' = m
    /\ status' = "SUCCESS"
    /\ pc' = "done"
RaiseFault(m) ==
    /\ outcome' = "fault"
    /\ msg' = m
    /\ status' = "FAILED"
    /\ pc' = "done"
ReturnNormally ==
    /\ outcome' = "returned"
    /\ msg' = [id |-> "returned", added |-> 0, failed |-> 0, index |-> None, warn |-> FALSE]
    /\ status' = "FAILED"
    /\ pc' = "done"

Msg(id) == [id |-> id, added |-> 0, failed |-> 0, index |-> None, warn |-> FALSE]

\* --------------------------------------------------- rate limiter (spec 4.2)
\* check(provider): fails when the window's count has reached the limit,
\* carrying the time to the window's reset; a window whose end is reached is
\* reset entirely.
\* Variant: the check lets one call more through
CheckFailsLate(c, r) == r > 0 /\ c > RateLimit
\* The rule for one provider's budget: c calls counted, r ticks to the reset.
CheckFails(c, r) == r > 0 /\ c >= RateLimit
CountAfterCheck(c, r) == IF r = 0 THEN 0 ELSE c
CountAfterIncrement(c, r) == IF r = 0 THEN 1 ELSE c + 1
ResetAfterIncrement(c, r) == IF r = 0 THEN Period ELSE r
RLCheckFails == CheckFails(rlCount, rlReset)
RLCheckPass ==
    /\ rlCount' = CountAfterCheck(rlCount, rlReset)
    /\ UNCHANGED rlReset
\* increment(provider): records one call, creating the window if absent.
RLIncrement ==
    /\ rlCount' = CountAfterIncrement(rlCount, rlReset)
    /\ rlReset' = ResetAfterIncrement(rlCount, rlReset)
\* d ticks of the clock pass.
RLElapse(d) ==
    /\ rlReset' = Max(0, rlReset - d)
    /\ UNCHANGED rlCount

\* ------------------------------------------------------- catalog (spec 6)
\* create-episode-if-absent followed by the update of the episode's track
\* info (_write_danmaku_file_and_update_db): the row of that index is created
\* when the source has none, and its comment count is set.
UpsertEpisode(db, idx, pid, n) ==
    LET existing == {e \in db.eps : e.episodeIndex = idx}
    IN  IF existing # {}
        THEN [db EXCEPT !.eps = (db.eps \ existing) \cup
                                {[e EXCEPT !.commentCount = n] : e \in existing}]
        ELSE [db EXCEPT !.eps = db.eps \cup
                 {[episodeIndex |-> idx, providerEpisodeId |-> pid, commentCount |-> n]}]
\* get_or_create_anime + link_source_to_anime
WithEntries(db) == [db EXCEPT !.anime = TRUE, !.source = TRUE]

\* ---------------------------------------------------------- variable groups
inputs == <<kind, target, mediaType, imageUrl, pre>>
rl == <<rlCount, rlReset>>
db == <<sess, disk>>
loop == <<i, added, failedCnt>>
fetch == <<dp, comments, wait>>
counters == <<fetchFaults, failoverCalls, rawLen>>
result == <<outcome, msg>>

\* ------------------------------------------------------------- progress
\* base_progress = 10 + int((i / total_episodes) * 85 ...)   (tasks.py:308)
\* The float product equals the exact quotient for every list shorter than 85
\* episodes, so the integer quotient is the value computed.
BaseProgress(k, total) ==
    10 + (IF total > 0 THEN (85 * k) \div total ELSE 85)
\* int(base_progress + (danmaku_progress / 100) * progress_slice) (tasks.py:316-318)
SubProgress(base, d, total) ==
    base + (IF total > 0 THEN (85 * d) \div (100 * total) ELSE 0)
\* the provider's own per-episode progress values
DpValues == {0, 50, 100}

\* ------------------------------------------------------------------ Init
ExistingDb == [anime |-> TRUE, source |-> TRUE, mediaId |-> "m1", eps |-> {}]
OneEpisodeDb ==
    [ExistingDb EXCEPT !.eps =
        {[episodeIndex |-> Some(1), providerEpisodeId |-> EpId(1), commentCount |-> 1]}]
AnimeOnlyDb == [EmptyDb EXCEPT !.anime = TRUE]

EntryPc(k) ==
    CASE k = "generic" -> "gi_begin"
      [] k = "edited" -> "ei_begin"
      [] k = "incremental" -> "ir_begin"
      [] k = "full_refresh" -> "fr_begin"
      [] k = "refresh_episode" -> "re_begin"
      [] k = "manual" -> "mi_begin"
      [] k = "batch" -> "bi_begin"
      [] k = "reorder" -> "ro_begin"
      [] k = "bulk_episodes" -> "bk_begin"
      [] k = "delete_anime" -> "da_begin"
      [] k = "auto" -> "as_begin"
      [] k = "bulk_sources" -> "bs_top"

JobInitFor(K) ==
    /\ kind \in K
    /\ pc = "pending"
    /\ status = "PENDING"
    /\ outcome = "none"
    /\ msg = Msg("")
    /\ lastPct = 0
    /\ pre \in (CASE kind \in {"generic", "edited"} -> {EmptyDb, AnimeOnlyDb, ExistingDb}
                  [] kind \in {"manual", "batch"} -> {ExistingDb, OneEpisodeDb}
                  [] OTHER -> {EmptyDb, ExistingDb, OneEpisodeDb})
    \* incremental refresh asks for the index after the episodes stored
    /\ target \in (CASE kind = "generic" -> {None} \cup {Some(n) : n \in EpIdx}
                    [] kind = "incremental" -> {Some(Cardinality(pre.eps) + 1)}
                    [] OTHER -> {None})
    /\ mediaType \in (IF kind \in {"generic", "incremental"}
                      THEN {"movie", "tv_series"} ELSE {"tv_series"})
    /\ imageUrl \in (IF kind \in {"generic", "edited"} THEN BOOLEAN ELSE {FALSE})
    /\ imageFailed = FALSE
    /\ episodes = <<>>
    /\ i = 0
    /\ added = 0
    /\ failedCnt = 0
    /\ dp = 0
    /\ comments = 0
    /\ wait = 0
    /\ fetchFaults = 0
    /\ failoverCalls = 0
    /\ rawLen = None
    /\ sess = pre
    /\ disk = pre
    /\ rlCount \in 0..RateLimit
    /\ rlReset \in (IF rlCount = 0 THEN {0} ELSE 1..Period)
JobInit == JobInitFor(Kinds)

\* The manager takes the job from the queue and runs its task function.
StartJob ==
    /\ pc = "pending"
    /\ status = "PENDING"
    /\ status' = "RUNNING"
    /\ pc' = EntryPc(kind)
    /\ UNCHANGED <<inputs, result, lastPct, imageFailed, episodes, loop, fetch,
                   counters, db, rl, tmVars, auxVars>>

\* ------------------------------------------------- generic_import_task
InGeneric == kind \in {"generic", "incremental"}

\* await progress_callback(10, ...)                          (tasks.py:411)
GI_Begin ==
    /\ InGeneric /\ pc = "gi_begin"
    /\ Report(10, "none")
    /\ pc' = "gi_list"
    /\ UNCHANGED <<inputs, result, imageFailed, episodes, loop, fetch, counters,
                   db, rl, tmVars, auxVars>>

\* Variant: the provider's own filtering is trusted
NoFilter(raw, t) == raw
\* The forced filter on the target index                  (tasks.py:420-426)
FilterTarget(raw, t) ==
    IF t # None /\ raw # <<>>
    THEN SelectSeq(raw, LAMBDA ep : Some(ep.episodeIndex) = t)
    ELSE raw

\* scraper.get_episodes returned `raw`                      (tasks.py:412-428)
GI_List(raw) ==
    /\ InGeneric /\ pc = "gi_list"
    /\ rawLen' = Some(Len(raw))
    /\ episodes' = FilterTarget(raw, target)
    /\ pc' = IF episodes' = <<>> THEN "gi_fo_report" ELSE "gi_entries"
    /\ UNCHANGED <<inputs, status, result, lastPct, imageFailed, loop, fetch,
                   fetchFaults, failoverCalls, db, rl, tmVars, auxVars>>

\* scraper.get_episodes raised: nothing catches it
ListFault ==
    /\ pc \in {"gi_list", "fr_list", "fr_relist"}
    /\ RaiseFault(Msg("provider_fault"))
    /\ UNCHANGED <<inputs, lastPct, imageFailed, episodes, loop, fetch, counters,
                   db, rl, tmVars, auxVars>>

\* await progress_callback(15, ...)                          (tasks.py:431)
GI_FailoverReport ==
    /\ InGeneric /\ pc = "gi_fo_report"
    /\ Report(15, "none")
    /\ pc' = "gi_fo_call"
    /\ UNCHANGED <<inputs, result, imageFailed, episodes, loop, fetch, counters,
                   db, rl, tmVars, auxVars>>

\* get_failover_comments returned n > 0 comments          (tasks.py:435-442)
GI_FailoverHit(n) ==
    /\ InGeneric /\ pc = "gi_fo_call"
    /\ n > 0
    /\ failoverCalls' = failoverCalls + 1
    /\ comments' = n
    /\ pc' = "gi_fo_found"
    /\ UNCHANGED <<inputs, status, result, lastPct, imageFailed, episodes, loop,
                   dp, wait, fetchFaults, rawLen, db, rl, tmVars, auxVars>>

\* Variant: the message never names the episode
GenericMissMsg(t) == Msg("no_episodes")
\* msg = f"未能找到第 {currentEpisodeIndex} 集。" if currentEpisodeIndex else ...
FailoverMissMsg(t) ==
    IF t # None /\ t # Some(0)
    THEN [Msg("episode_not_found") EXCEPT !.index = t]
    ELSE Msg("no_episodes")

\* get_failover_comments returned nothing: ValueError(msg)  (tasks.py:468-471)
GI_FailoverMiss ==
    /\ InGeneric /\ pc = "gi_fo_call"
    /\ failoverCalls' = failoverCalls + 1
    /\ RaiseFault(FailoverMissMsg(target))
    /\ UNCHANGED <<inputs, lastPct, imageFailed, episodes, loop, fetch,
                   fetchFaults, rawLen, db, rl, tmVars, auxVars>>

\* await progress_callback(20, ...)                          (tasks.py:444)
GI_FailoverFound ==
    /\ InGeneric /\ pc = "gi_fo_found"
    /\ Report(20, "none")
    /\ pc' = "gi_fo_persist"
    /\ UNCHANGED <<inputs, result, imageFailed, episodes, loop, fetch, counters,
                   db, rl, tmVars, auxVars>>

\* image_download_failed = bool(imageUrl and not local_image_path)
ImageFailed(url, downloaded) == url /\ ~downloaded

\* The failover episode is persisted under the requested index, whatever it
\* is, and committed; TaskSuccess follows.                 (tasks.py:446-467)
GI_FailoverPersist(downloaded) ==
    /\ InGeneric /\ pc = "gi_fo_persist"
    /\ imageFailed' = ImageFailed(imageUrl, downloaded)
    /\ sess' = UpsertEpisode(WithEntries(sess), target, "failover", comments)
    /\ disk' = sess'
    /\ RaiseTaskSuccess([Msg("failover_done") EXCEPT !.added = comments,
                                                     !.warn = imageFailed'])
    /\ UNCHANGED <<inputs, lastPct, episodes, loop, fetch, counters, rl, tmVars, auxVars>>

\* The catalog store may refuse an episode without an index (its code is not
\* part of tasks.py): the fault leaves the task uncaught, nothing is committed.
GI_FailoverPersistRefused ==
    /\ InGeneric /\ pc = "gi_fo_persist"
    /\ target = None
    /\ sess' = WithEntries(sess)
    /\ RaiseFault(Msg("catalog_fault"))
    /\ UNCHANGED <<inputs, lastPct, imageFailed, episodes, loop, fetch, counters,
                   disk, rl, tmVars, auxVars>>

\* if mediaType == "movie" and episodes: episodes = episodes[:1]
MovieCut(eps, mt) == IF mt = "movie" /\ eps # <<>> THEN SubSeq(eps, 1, 1) ELSE eps

\* The movie cut, then the Work and Source rows, committed; the loop starts.
\*                                                         (tasks.py:473-504)
GI_Entries(downloaded) ==
    /\ InGeneric /\ pc = "gi_entries"
    /\ episodes' = MovieCut(episodes, mediaType)
    /\ imageFailed' = ImageFailed(imageUrl, downloaded)
    /\ sess' = WithEntries(sess)
    /\ disk' = sess'
    /\ i' = 0 /\ added' = 0 /\ failedCnt' = 0
    /\ pc' = "pel_top"
    /\ UNCHANGED <<inputs, status, result, lastPct, fetch, counters, rl, tmVars, auxVars>>

\* The summary raised as TaskSuccess        (tasks.py:509-518 and 575-584)
FinalMessage(a, f, w) ==
    [id |-> IF a = 0 /\ f = 0 THEN "import_done_no_new" ELSE "import_done",
     added |-> a, failed |-> f, index |-> None, warn |-> w]

LoopDone == pc = "pel_top" /\ i >= Len(episodes)

GI_Finish ==
    /\ InGeneric /\ LoopDone
    /\ RaiseTaskSuccess(FinalMessage(added, failedCnt, imageFailed))
    /\ UNCHANGED <<inputs, lastPct, imageFailed, episodes, loop, fetch, counters,
                   db, rl, tmVars, auxVars>>

\* ------------------------------------------------ _process_episode_list
InLoop == kind \in LoopKinds
Total == Len(episodes)

\* while i < total_episodes: ... await progress_callback(base_progress, ...)
\*                                                         (tasks.py:305-311)
PEL_Top ==
    /\ InLoop /\ pc = "pel_top" /\ i < Total
    /\ Report(BaseProgress(i, Total), "none")
    /\ dp' = 0 /\ comments' = 0
    /\ pc' = "pel_check"
    /\ UNCHANGED <<inputs, result, imageFailed, episodes, loop, wait, counters,
                   db, rl, tmVars, auxVars>>

\* await rate_limiter.check(...) returned                    (tasks.py:313)
PEL_CheckPass ==
    /\ InLoop /\ pc = "pel_check"
    /\ ~RLCheckFails
    /\ RLCheckPass
    /\ pc' = "pel_fetch"
    /\ UNCHANGED <<inputs, status, result, lastPct, imageFailed, episodes, loop,
                   fetch, counters, db, tmVars, auxVars>>

\* await rate_limiter.check(...) raised RateLimitExceededError: the first
\* except clause takes it                               (tasks.py:313, 321)
PEL_RateLimited ==
    /\ InLoop /\ pc = "pel_check"
    /\ RLCheckFails
    /\ wait' = rlReset
    /\ pc' = "pel_paused"
    /\ UNCHANGED <<inputs, status, result, lastPct, imageFailed, episodes, loop,
                   dp, comments, counters, db, rl, tmVars, auxVars>>

\* await progress_callback(base_progress, ..., status=TaskStatus.PAUSED)
\*                                                         (tasks.py:323)
PEL_ReportPaused ==
    /\ InLoop /\ pc = "pel_paused"
    /\ Report(BaseProgress(i, Total), "PAUSED")
    /\ pc' = "pel_sleep"
    /\ UNCHANGED <<inputs, result, imageFailed, episodes, loop, fetch, counters,
                   db, rl, tmVars, auxVars>>

\* Variant: the backoff moves on to the next episode
AfterBackoffAdvance(k) == k + 1
\* await asyncio.sleep(e.retry_after_seconds); continue  (tasks.py:324-325)
AfterBackoff(k) == k
\* Variant: `break` in place of `continue`: the loop is left after the sleep
PEL_SleepBreak ==
    /\ InLoop /\ pc = "pel_sleep"
    /\ RLElapse(wait)
    /\ i' = Total
    /\ pc' = "pel_top"
    /\ UNCHANGED <<inputs, status, result, lastPct, imageFailed, episodes, added,
                   failedCnt, fetch, counters, db, tmVars, auxVars>>
PEL_Sleep ==
    /\ InLoop /\ pc = "pel_sleep"
    /\ RLElapse(wait)
    /\ i' = AfterBackoff(i)
    /\ pc' = "pel_top"
    /\ UNCHANGED <<inputs, status, result, lastPct, imageFailed, episodes, added,
                   failedCnt, fetch, counters, db, tmVars, auxVars>>

\* The provider calls sub_progress_callback with its own progress d, which
\* never goes back within one fetch                     (tasks.py:315-318)
PEL_SubProgress(d) ==
    /\ InLoop /\ pc = "pel_fetch"
    /\ d >= dp
    /\ dp' = d
    /\ Report(SubProgress(BaseProgress(i, Total), d, Total), "none")
    /\ UNCHANGED <<inputs, result, pc, imageFailed, episodes, loop, comments,
                   wait, counters, db, rl, tmVars, auxVars>>

\* scraper.get_comments returned n comments after t ticks; `if comments:`
\* decides whether anything is persisted              (tasks.py:320, 335, 343)
PEL_FetchOk(n, t) ==
    /\ InLoop /\ pc = "pel_fetch"
    /\ comments' = n
    /\ RLElapse(t)
    /\ IF n > 0
       THEN pc' = "pel_persist" /\ UNCHANGED i
       ELSE pc' = "pel_top" /\ i' = i + 1
    /\ UNCHANGED <<inputs, status, result, lastPct, imageFailed, episodes, added,
                   failedCnt, dp, wait, counters, db, tmVars, auxVars>>

\* tasks.py imports no httpx (lines 1-27), so evaluating the second except
\* clause, `except httpx.RequestError`, raises NameError.
HttpxImported == FALSE

\* scraper.get_comments raised fault f, which is not the rate-limit signal.
\* With httpx bound, the handlers count the episode as failed, report
\* status=RUNNING and fall through to i += 1; as the module stands, the
\* NameError leaves the except chain and the function.    (tasks.py:326-343)
PEL_FetchFault(f) ==
    /\ InLoop /\ pc = "pel_fetch"
    /\ f \in {"network", "other"}
    /\ fetchFaults' = fetchFaults + 1
    /\ IF HttpxImported
       THEN /\ failedCnt' = failedCnt + 1
            /\ Report(BaseProgress(i, Total), "RUNNING")
            /\ i' = i + 1
            /\ pc' = "pel_top"
            /\ UNCHANGED <<result, added>>
       ELSE /\ RaiseFault(Msg("NameError"))
            /\ UNCHANGED <<lastPct, loop>>
    /\ UNCHANGED <<inputs, imageFailed, episodes, fetch, failoverCalls, rawLen,
                   db, rl, tmVars, auxVars>>

\* Variant: the episode is written and the commit is left out
PEL_PersistNoCommit ==
    /\ InLoop /\ pc = "pel_persist"
    /\ RLIncrement
    /\ sess' = UpsertEpisode(sess, Some(episodes[i + 1].episodeIndex),
                             episodes[i + 1].episodeId, comments)
    /\ added' = added + comments
    /\ i' = i + 1
    /\ pc' = "pel_top"
    /\ UNCHANGED <<inputs, status, result, lastPct, imageFailed, episodes,
                   failedCnt, fetch, counters, disk, tmVars, auxVars>>
\* if comments: increment, create_episode_if_not_exists, write, commit; i += 1
\*                                                         (tasks.py:335-343)
PEL_Persist ==
    /\ InLoop /\ pc = "pel_persist"
    /\ RLIncrement
    /\ sess' = UpsertEpisode(sess, Some(episodes[i + 1].episodeIndex),
                             episodes[i + 1].episodeId, comments)
    /\ disk' = sess'
    /\ added' = added + comments
    /\ i' = i + 1
    /\ pc' = "pel_top"
    /\ UNCHANGED <<inputs, status, result, lastPct, imageFailed, episodes,
                   failedCnt, fetch, counters, tmVars, auxVars>>

\* --------------------------------------------------- edited_import_task
\* episodes = request_data.episodes; an empty request ends at once
\*                                                         (tasks.py:532-534)
EI_Begin(req) ==
    /\ kind = "edited" /\ pc = "ei_begin"
    /\ episodes' = req
    /\ IF req = <<>>
       THEN RaiseTaskSuccess(Msg("no_episodes_given"))
       ELSE pc' = "ei_entries" /\ UNCHANGED <<status, result>>
    /\ UNCHANGED <<inputs, lastPct, imageFailed, loop, fetch, counters, db, rl,
                   tmVars, auxVars>>

\* The Work and Source rows, committed; the loop starts   (tasks.py:547-570)
EI_Entries(downloaded) ==
    /\ kind = "edited" /\ pc = "ei_entries"
    /\ imageFailed' = ImageFailed(imageUrl, downloaded)
    /\ sess' = WithEntries(sess)
    /\ disk' = sess'
    /\ i' = 0 /\ added' = 0 /\ failedCnt' = 0
    /\ pc' = "pel_top"
    /\ UNCHANGED <<inputs, status, result, lastPct, episodes, fetch, counters,
                   rl, tmVars, auxVars>>

\*                                                         (tasks.py:572-584)
EI_Finish ==
    /\ kind = "edited" /\ LoopDone
    /\ RaiseTaskSuccess(FinalMessage(added, failedCnt, imageFailed))
    /\ UNCHANGED <<inputs, lastPct, imageFailed, episodes, loop, fetch, counters,
                   db, rl, tmVars, auxVars>>

\* ---------------------------------------------- incremental_refresh_task
\* source_info missing: progress_callback(100, ...) is called without await,
\* so no report is made, and the function returns        (tasks.py:814-818)
IR_SourceMissing ==
    /\ kind = "incremental" /\ pc = "ir_begin"
    /\ ~sess.source
    /\ ReturnNormally
    /\ UNCHANGED <<inputs, lastPct, imageFailed, episodes, loop, fetch, counters,
                   db, rl, tmVars, auxVars>>

\* await generic_import_task(..., currentEpisodeIndex=nextEpisodeIndex,
\* imageUrl=None, ...); whatever it raises is raised on   (tasks.py:819-835)
IR_Delegate ==
    /\ kind = "incremental" /\ pc = "ir_begin"
    /\ sess.source
    /\ pc' = "gi_begin"
    /\ UNCHANGED <<inputs, status, result, lastPct, imageFailed, episodes, loop,
                   fetch, counters, db, rl, tmVars, auxVars>>

\* ------------------------------------------------------ full_refresh_task
\* source_info missing: report 100, then TaskSuccess      (tasks.py:591-595)
FR_SourceMissing ==
    /\ kind = "full_refresh" /\ pc = "fr_begin"
    /\ ~sess.source
    /\ Report(100, "none")
    /\ pc' = "fr_missing"
    /\ UNCHANGED <<inputs, result, imageFailed, episodes, loop, fetch, counters,
                   db, rl, tmVars, auxVars>>

FR_SourceMissingEnd ==
    /\ kind = "full_refresh" /\ pc = "fr_missing"
    /\ RaiseTaskSuccess(Msg("refresh_failed_source_not_found"))
    /\ UNCHANGED <<inputs, lastPct, imageFailed, episodes, loop, fetch, counters,
                   db, rl, tmVars, auxVars>>

\* await progress_callback(10, ...)                          (tasks.py:600)
FR_Begin ==
    /\ kind = "full_refresh" /\ pc = "fr_begin"
    /\ sess.source
    /\ Report(10, "none")
    /\ pc' = "fr_list"
    /\ UNCHANGED <<inputs, result, imageFailed, episodes, loop, fetch, counters,
                   db, rl, tmVars, auxVars>>

\* new_episodes = await scraper.get_episodes(current_media_id)
\*                                                         (tasks.py:602-605)
FR_List(raw) ==
    /\ kind = "full_refresh" /\ pc = "fr_list"
    /\ rawLen' = Some(Len(raw))
    /\ episodes' = raw
    /\ pc' = IF raw = <<>> THEN "fr_fo_report" ELSE "fr_have"
    /\ UNCHANGED <<inputs, status, result, lastPct, imageFailed, loop, fetch,
                   fetchFaults, failoverCalls, db, rl, tmVars, auxVars>>

\* await progress_callback(15, ...)                          (tasks.py:607)
FR_FailoverReport ==
    /\ kind = "full_refresh" /\ pc = "fr_fo_report"
    /\ Report(15, "none")
    /\ pc' = "fr_fo_call"
    /\ UNCHANGED <<inputs, result, imageFailed, episodes, loop, fetch, counters,
                   db, rl, tmVars, auxVars>>

\* find_new_media_id answered `new` ("" is None)          (tasks.py:609-611)
FR_FindNewMediaId(new) ==
    /\ kind = "full_refresh" /\ pc = "fr_fo_call"
    /\ failoverCalls' = failoverCalls + 1
    /\ IF new # "" /\ new # sess.mediaId
       THEN pc' = "fr_fo_retry"
       ELSE pc' = "fr_have"
    /\ UNCHANGED <<inputs, status, result, lastPct, imageFailed, episodes, loop,
                   fetch, fetchFaults, rawLen, db, rl, tmVars, auxVars>>

\* await progress_callback(18, ...)                          (tasks.py:613)
FR_RetryReport ==
    /\ kind = "full_refresh" /\ pc = "fr_fo_retry"
    /\ Report(18, "none")
    /\ pc' = "fr_relist"
    /\ UNCHANGED <<inputs, result, imageFailed, episodes, loop, fetch, counters,
                   db, rl, tmVars, auxVars>>

\* update_source_media_id in the session, then get_episodes(new_media_id)
\*                                                         (tasks.py:614-615)
FR_Relist(raw) ==
    /\ kind = "full_refresh" /\ pc = "fr_relist"
    /\ sess' = [sess EXCEPT !.mediaId = "m2"]
    /\ rawLen' = Some(Len(raw))
    /\ episodes' = raw
    /\ pc' = "fr_have"
    /\ UNCHANGED <<inputs, status, result, lastPct, imageFailed, loop, fetch,
                   fetchFaults, failoverCalls, disk, rl, tmVars, auxVars>>

\* if not new_episodes: raise TaskSuccess(...)             (tasks.py:618-619)
FR_NoEpisodes ==
    /\ kind = "full_refresh" /\ pc = "fr_have"
    /\ episodes = <<>>
    /\ RaiseTaskSuccess(Msg("refresh_failed_no_episodes"))
    /\ UNCHANGED <<inputs, lastPct, imageFailed, episodes, loop, fetch, counters,
                   db, rl, tmVars, auxVars>>

\* await progress_callback(20, ...); the loop starts      (tasks.py:621-630)
FR_StartLoop ==
    /\ kind = "full_refresh" /\ pc = "fr_have"
    /\ episodes # <<>>
    /\ Report(20, "none")
    /\ i' = 0 /\ added' = 0 /\ failedCnt' = 0
    /\ pc' = "pel_top"
    /\ UNCHANGED <<inputs, result, imageFailed, episodes, fetch, counters, db,
                   rl, tmVars, auxVars>>

\*                                                         (tasks.py:632-640)
FR_Finish ==
    /\ kind = "full_refresh" /\ LoopDone
    /\ RaiseTaskSuccess(
          IF added = 0 /\ failedCnt = Len(episodes)
          THEN Msg("refresh_no_new")
          ELSE [Msg("refresh_done") EXCEPT !.added = added, !.failed = failedCnt])
    /\ UNCHANGED <<inputs, lastPct, imageFailed, episodes, loop, fetch, counters,
                   db, rl, tmVars, auxVars>>

\* --------------------------------------------------- refresh_episode_task
\* await progress_callback(0, ...)                           (tasks.py:665)
RE_Begin ==
    /\ kind = "refresh_episode" /\ pc = "re_begin"
    /\ Report(0, "none")
    /\ pc' = "re_info"
    /\ UNCHANGED <<inputs, result, imageFailed, episodes, loop, fetch, counters,
                   db, rl, tmVars, auxVars>>

\* get_episode_provider_info found nothing: report 100      (tasks.py:667-670)
RE_InfoMissing ==
    /\ kind = "refresh_episode" /\ pc = "re_info"
    /\ sess.eps = {}
    /\ Report(100, "none")
    /\ pc' = "re_missing"
    /\ UNCHANGED <<inputs, result, imageFailed, episodes, loop, fetch, counters,
                   db, rl, tmVars, auxVars>>

\* return                                                    (tasks.py:671)
RE_InfoMissingReturn ==
    /\ kind = "refresh_episode" /\ pc = "re_missing"
    /\ ReturnNormally
    /\ UNCHANGED <<inputs, lastPct, imageFailed, episodes, loop, fetch, counters,
                   db, rl, tmVars, auxVars>>

\* rate_limiter.check raised: TaskSuccess with the wait     (tasks.py:676-679)
RE_RateLimited ==
    /\ kind = "refresh_episode" /\ pc = "re_info"
    /\ sess.eps # {}
    /\ RLCheckFails
    /\ wait' = rlReset
    /\ RaiseTaskSuccess(Msg("rate_limited_retry_later"))
    /\ UNCHANGED <<inputs, lastPct, imageFailed, episodes, loop, dp, comments,
                   counters, db, rl, tmVars, auxVars>>

\* rate_limiter.check returned; await progress_callback(30, ...)
\*                                                         (tasks.py:677-681)
RE_CheckPass ==
    /\ kind = "refresh_episode" /\ pc = "re_info"
    /\ sess.eps # {}
    /\ ~RLCheckFails
    /\ RLCheckPass
    /\ Report(30, "none")
    /\ dp' = 0
    /\ pc' = "re_fetch"
    /\ UNCHANGED <<inputs, result, imageFailed, episodes, loop, comments, wait,
                   counters, db, tmVars, auxVars>>

\* current_total_progress = 30 + (danmaku_progress / 100) * 65; the record
\* keeps its integer part                                 (tasks.py:683-686)
RE_SubProgress(d) ==
    /\ kind = "refresh_episode" /\ pc = "re_fetch"
    /\ d >= dp
    /\ dp' = d
    /\ Report(30 + (65 * d) \div 100, "none")
    /\ UNCHANGED <<inputs, result, pc, imageFailed, episodes, loop, comments,
                   wait, counters, db, rl, tmVars, auxVars>>

\* get_comments returned nothing: update_episode_fetch_time, TaskSuccess
\*                                                         (tasks.py:688-692)
RE_FetchEmpty(t) ==
    /\ kind = "refresh_episode" /\ pc = "re_fetch"
    /\ RLElapse(t)
    /\ RaiseTaskSuccess(Msg("no_comments_found"))
    /\ UNCHANGED <<inputs, lastPct, imageFailed, episodes, loop, fetch, counters,
                   db, tmVars, auxVars>>

\* get_comments returned n > 0 comments; rate_limiter.increment; report 96
\*                                                         (tasks.py:688-696)
RE_FetchOk(n, t) ==
    /\ kind = "refresh_episode" /\ pc = "re_fetch"
    /\ n > 0
    /\ comments' = n
    /\ rlReset' = (IF Max(0, rlReset - t) = 0 THEN Period ELSE Max(0, rlReset - t))
    /\ rlCount' = (IF Max(0, rlReset - t) = 0 THEN 1 ELSE rlCount + 1)
    /\ Report(96, "none")
    /\ pc' = "re_write"
    /\ UNCHANGED <<inputs, result, imageFailed, episodes, loop, dp, wait, counters,
                   db, tmVars, auxVars>>

\* get_comments raised: logged and raised again            (tasks.py:707-709)
RE_FetchFault ==
    /\ kind = "refresh_episode" /\ pc = "re_fetch"
    /\ fetchFaults' = fetchFaults + 1
    /\ RaiseFault(Msg("provider_fault"))
    /\ UNCHANGED <<inputs, lastPct, imageFailed, episodes, loop, fetch,
                   failoverCalls, rawLen, db, rl, tmVars, auxVars>>

\* _write_danmaku_file_and_update_db, commit, TaskSuccess  (tasks.py:699-703)
RE_Write ==
    /\ kind = "refresh_episode" /\ pc = "re_write"
    /\ sess' = [sess EXCEPT !.eps = {[e EXCEPT !.commentCount = comments] : e \in sess.eps}]
    /\ disk' = sess'
    /\ RaiseTaskSuccess([Msg("refresh_episode_done") EXCEPT !.added = comments])
    /\ UNCHANGED <<inputs, lastPct, imageFailed, episodes, loop, fetch, counters,
                   rl, tmVars, auxVars>>

\* ------------------------------------------------------ manual_import_task
\* An item of a manual import: the episode index it is for, and whether its
\* content is good: text that holds a comment (custom), or a URL the scraper
\* resolves to a video id (any other provider).
ItemLists ==
    {[k \in 1..Len(b) |-> [episodeIndex |-> k, good |-> b[k]]] :
        b \in SeqsUpTo(BOOLEAN, MaxEps)}
\* len(_parse_xml_content(...)) of a custom item's content
ParsedCount(it) == IF it.good THEN 1 ELSE 0

\* await progress_callback(10, ...)                          (tasks.py:843-847)
MI_Begin ==
    /\ kind = "manual" /\ pc = "mi_begin"
    /\ Report(10, "none")
    /\ pc' = IF custom THEN "mi_parse" ELSE "mi_resolve"
    /\ UNCHANGED <<inputs, result, imageFailed, episodes, loop, fetch, counters,
                   db, rl, tmVars, auxVars>>

\* await progress_callback(20, ...); the content is parsed (tasks.py:849-855)
MI_Parse ==
    /\ kind = "manual" /\ pc = "mi_parse"
    /\ Report(20, "none")
    /\ comments' = ParsedCount(items[1])
    /\ pc' = "mi_parsed"
    /\ UNCHANGED <<inputs, result, imageFailed, episodes, loop, dp, wait,
                   counters, db, rl, tmVars, auxVars>>

\* if not comments: raise TaskSuccess(...)                (tasks.py:856-857)
MI_ParseEmpty ==
    /\ kind = "manual" /\ pc = "mi_parsed"
    /\ comments = 0
    /\ RaiseTaskSuccess(Msg("no_comments_in_xml"))
    /\ UNCHANGED <<inputs, lastPct, imageFailed, episodes, loop, fetch, counters,
                   db, rl, tmVars, auxVars>>

\* await progress_callback(80, ...)                          (tasks.py:859)
MI_ParseOk ==
    /\ kind = "manual" /\ pc = "mi_parsed"
    /\ comments > 0
    /\ Report(80, "none")
    /\ pc' = "mi_write"
    /\ UNCHANGED <<inputs, result, imageFailed, episodes, loop, fetch, counters,
                   db, rl, tmVars, auxVars>>

\* the scraper has no get_id_from_url, or resolves the URL to nothing
\*                                                         (tasks.py:867-873)
MI_ResolveFault(supported) ==
    /\ kind = "manual" /\ pc = "mi_resolve"
    /\ ~supported \/ ~items[1].good
    /\ RaiseFault(Msg(IF supported THEN "ValueError" ELSE "NotImplementedError"))
    /\ UNCHANGED <<inputs, lastPct, imageFailed, episodes, loop, fetch, counters,
                   db, rl, tmVars, auxVars>>

\* await progress_callback(20, ...)                       (tasks.py:871-887)
MI_Resolved ==
    /\ kind = "manual" /\ pc = "mi_resolve"
    /\ items[1].good
    /\ Report(20, "none")
    /\ pc' = "mi_check"
    /\ UNCHANGED <<inputs, result, imageFailed, episodes, loop, fetch, counters,
                   db, rl, tmVars, auxVars>>

\* rate_limiter.check raised: TaskSuccess with the wait     (tasks.py:889-892)
MI_RateLimited ==
    /\ kind = "manual" /\ pc = "mi_check"
    /\ RLCheckFails
    /\ wait' = rlReset
    /\ RaiseTaskSuccess(Msg("rate_limited_retry_later"))
    /\ UNCHANGED <<inputs, lastPct, imageFailed, episodes, loop, dp, comments,
                   counters, db, rl, tmVars, auxVars>>

\* rate_limiter.check returned                               (tasks.py:890)
MI_CheckPass ==
    /\ kind = "manual" /\ pc = "mi_check"
    /\ ~RLCheckFails
    /\ RLCheckPass
    /\ dp' = 0
    /\ pc' = "mi_fetch"
    /\ UNCHANGED <<inputs, status, result, lastPct, imageFailed, episodes, loop,
                   comments, wait, counters, db, tmVars, auxVars>>

\* get_comments is given the job's own progress_callback: the provider's
\* per-episode progress goes to the record as it is          (tasks.py:894)
MI_SubProgress(d) ==
    /\ kind = "manual" /\ pc = "mi_fetch"
    /\ d >= dp
    /\ dp' = d
    /\ Report(d, "none")
    /\ UNCHANGED <<inputs, result, pc, imageFailed, episodes, loop, comments,
                   wait, counters, db, rl, tmVars, auxVars>>

\* get_comments returned nothing: TaskSuccess             (tasks.py:894-896)
MI_FetchEmpty(t) ==
    /\ kind = "manual" /\ pc = "mi_fetch"
    /\ RLElapse(t)
    /\ RaiseTaskSuccess(Msg("no_comments_found"))
    /\ UNCHANGED <<inputs, lastPct, imageFailed, episodes, loop, fetch, counters,
                   db, tmVars, auxVars>>

\* get_comments returned n > 0 comments; rate_limiter.increment; report 90
\*                                                         (tasks.py:894-900)
MI_FetchOk(n, t) ==
    /\ kind = "manual" /\ pc = "mi_fetch"
    /\ n > 0
    /\ comments' = n
    /\ rlCount' = CountAfterIncrement(rlCount, Max(0, rlReset - t))
    /\ rlReset' = ResetAfterIncrement(rlCount, Max(0, rlReset - t))
    /\ Report(90, "none")
    /\ pc' = "mi_write"
    /\ UNCHANGED <<inputs, result, imageFailed, episodes, loop, dp, wait, counters,
                   db, tmVars, auxVars>>

\* get_comments raised: logged and raised again            (tasks.py:907-909)
MI_FetchFault ==
    /\ kind = "manual" /\ pc = "mi_fetch"
    /\ fetchFaults' = fetchFaults + 1
    /\ RaiseFault(Msg("provider_fault"))
    /\ UNCHANGED <<inputs, lastPct, imageFailed, episodes, loop, fetch,
                   failoverCalls, rawLen, db, rl, tmVars, auxVars>>

\* create_episode_if_not_exists, _write_danmaku_file_and_update_db, commit,
\* TaskSuccess                              (tasks.py:860-864 and 901-904)
MI_Write ==
    /\ kind = "manual" /\ pc = "mi_write"
    /\ sess' = UpsertEpisode(sess, Some(items[1].episodeIndex),
                             IF custom THEN "custom_xml" ELSE EpId(1), comments)
    /\ disk' = sess'
    /\ RaiseTaskSuccess([Msg("manual_import_done") EXCEPT !.added = comments])
    /\ UNCHANGED <<inputs, lastPct, imageFailed, episodes, loop, fetch, counters,
                   rl, tmVars, auxVars>>

\* ------------------------------------------------ batch_manual_import_task
\* progress = 5 + int(((i + 1) / total_items) * 90) ...      (tasks.py:926)
BatchProgress(k, total) ==
    IF total > 0 THEN 5 + (90 * (k + 1)) \div total ELSE 95

\* await progress_callback(5, ...)                        (tasks.py:916-923)
BI_Begin ==
    /\ kind = "batch" /\ pc = "bi_begin"
    /\ Report(5, "none")
    /\ i' = 0 /\ added' = 0 /\ failedCnt' = 0
    /\ pc' = "bi_top"
    /\ UNCHANGED <<inputs, result, imageFailed, episodes, fetch, counters, db,
                   rl, tmVars, auxVars>>

\* while i < total_items: ... await progress_callback(progress, ...)
\*                                                         (tasks.py:924-931)
BI_Top ==
    /\ kind = "batch" /\ pc = "bi_top" /\ i < Len(items)
    /\ Report(BatchProgress(i, Len(items)), "none")
    /\ comments' = 0
    /\ pc' = IF custom THEN "bi_parse" ELSE "bi_resolve"
    /\ UNCHANGED <<inputs, result, imageFailed, episodes, loop, dp, wait,
                   counters, db, rl, tmVars, auxVars>>

\* `if not comments: continue`: back to the loop's test with i as it is
\*                                                         (tasks.py:932-939)
BI_ParseEmpty ==
    /\ kind = "batch" /\ pc = "bi_parse"
    /\ ParsedCount(items[i + 1]) = 0
    /\ pc' = "bi_top"
    /\ UNCHANGED <<inputs, status, result, lastPct, imageFailed, episodes, loop,
                   fetch, counters, db, rl, tmVars, auxVars>>

\* the item's comments are written in the session         (tasks.py:938-943)
BI_ParseOk ==
    /\ kind = "batch" /\ pc = "bi_parse"
    /\ ParsedCount(items[i + 1]) > 0
    /\ comments' = ParsedCount(items[i + 1])
    /\ sess' = UpsertEpisode(sess, Some(items[i + 1].episodeIndex), "custom_xml",
                             ParsedCount(items[i + 1]))
    /\ added' = added + ParsedCount(items[i + 1])
    /\ pc' = "bi_commit"
    /\ UNCHANGED <<inputs, status, result, lastPct, imageFailed, episodes, i,
                   failedCnt, dp, wait, counters, disk, rl, tmVars, auxVars>>

\* except Exception: failed_items += 1; rollback; i += 1  (tasks.py:967-971)
ItemFailed ==
    /\ failedCnt' = failedCnt + 1
    /\ sess' = disk
    /\ i' = i + 1
    /\ pc' = "bi_top"

\* get_id_from_url resolved nothing: ValueError           (tasks.py:945-947)
BI_ResolveFault ==
    /\ kind = "batch" /\ pc = "bi_resolve"
    /\ ~items[i + 1].good
    /\ ItemFailed
    /\ UNCHANGED <<inputs, status, result, lastPct, imageFailed, episodes, added,
                   fetch, counters, disk, rl, tmVars, auxVars>>

\*                                                         (tasks.py:946-949)
BI_Resolved ==
    /\ kind = "batch" /\ pc = "bi_resolve"
    /\ items[i + 1].good
    /\ pc' = "bi_check"
    /\ UNCHANGED <<inputs, status, result, lastPct, imageFailed, episodes, loop,
                   fetch, counters, db, rl, tmVars, auxVars>>

\* rate_limiter.check raised RateLimitExceededError    (tasks.py:951, 962)
BI_RateLimited ==
    /\ kind = "batch" /\ pc = "bi_check"
    /\ RLCheckFails
    /\ wait' = rlReset
    /\ pc' = "bi_paused"
    /\ UNCHANGED <<inputs, status, result, lastPct, imageFailed, episodes, loop,
                   dp, comments, counters, db, rl, tmVars, auxVars>>

\* await progress_callback(progress, ..., status=TaskStatus.PAUSED)
\*                                                         (tasks.py:964)
BI_ReportPaused ==
    /\ kind = "batch" /\ pc = "bi_paused"
    /\ Report(BatchProgress(i, Len(items)), "PAUSED")
    /\ pc' = "bi_sleep"
    /\ UNCHANGED <<inputs, result, imageFailed, episodes, loop, fetch, counters,
                   db, rl, tmVars, auxVars>>

\* Variant: the sleep is followed by the next item
BI_SleepSkip ==
    /\ kind = "batch" /\ pc = "bi_sleep"
    /\ RLElapse(wait)
    /\ i' = i + 1
    /\ pc' = "bi_top"
    /\ UNCHANGED <<inputs, status, result, lastPct, imageFailed, episodes, added,
                   failedCnt, fetch, counters, db, tmVars, auxVars>>
\* await asyncio.sleep(e.retry_after_seconds); continue  (tasks.py:965-966)
BI_Sleep ==
    /\ kind = "batch" /\ pc = "bi_sleep"
    /\ RLElapse(wait)
    /\ pc' = "bi_top"
    /\ UNCHANGED <<inputs, status, result, lastPct, imageFailed, episodes, loop,
                   fetch, counters, db, tmVars, auxVars>>

\* rate_limiter.check returned                               (tasks.py:951)
BI_CheckPass ==
    /\ kind = "batch" /\ pc = "bi_check"
    /\ ~RLCheckFails
    /\ RLCheckPass
    /\ pc' = "bi_fetch"
    /\ UNCHANGED <<inputs, status, result, lastPct, imageFailed, episodes, loop,
                   fetch, counters, db, tmVars, auxVars>>

\* get_comments returned n comments after t ticks       (tasks.py:952-954)
BI_FetchOk(n, t) ==
    /\ kind = "batch" /\ pc = "bi_fetch"
    /\ comments' = n
    /\ RLElapse(t)
    /\ pc' = IF n > 0 THEN "bi_persist" ELSE "bi_commit"
    /\ UNCHANGED <<inputs, status, result, lastPct, imageFailed, episodes, loop,
                   dp, wait, counters, db, tmVars, auxVars>>

\* get_comments raised a fault                         (tasks.py:952, 967)
BI_FetchFault ==
    /\ kind = "batch" /\ pc = "bi_fetch"
    /\ fetchFaults' = fetchFaults + 1
    /\ ItemFailed
    /\ UNCHANGED <<inputs, status, result, lastPct, imageFailed, episodes, added,
                   fetch, failoverCalls, rawLen, disk, rl, tmVars, auxVars>>

\* Variant: the fetched comments are written without recording the call
BI_PersistUncounted ==
    /\ kind = "batch" /\ pc = "bi_persist"
    /\ sess' = UpsertEpisode(sess, Some(items[i + 1].episodeIndex), EpId(i + 1),
                             comments)
    /\ added' = added + comments
    /\ pc' = "bi_commit"
    /\ UNCHANGED <<inputs, status, result, lastPct, imageFailed, episodes, i,
                   failedCnt, fetch, counters, disk, rl, tmVars, auxVars>>
\* if comments: increment, create_episode_if_not_exists, write
\*                                                         (tasks.py:954-958)
BI_Persist ==
    /\ kind = "batch" /\ pc = "bi_persist"
    /\ RLIncrement
    /\ sess' = UpsertEpisode(sess, Some(items[i + 1].episodeIndex), EpId(i + 1),
                             comments)
    /\ added' = added + comments
    /\ pc' = "bi_commit"
    /\ UNCHANGED <<inputs, status, result, lastPct, imageFailed, episodes, i,
                   failedCnt, fetch, counters, disk, tmVars, auxVars>>

\* await session.commit(); i += 1                         (tasks.py:960-961)
BI_Commit ==
    /\ kind = "batch" /\ pc = "bi_commit"
    /\ disk' = sess
    /\ i' = i + 1
    /\ pc' = "bi_top"
    /\ UNCHANGED <<inputs, status, result, lastPct, imageFailed, episodes, added,
                   failedCnt, fetch, counters, sess, rl, tmVars, auxVars>>

\*                                                         (tasks.py:973-976)
BI_Finish ==
    /\ kind = "batch" /\ pc = "bi_top" /\ i >= Len(items)
    /\ RaiseTaskSuccess([Msg("batch_done") EXCEPT !.added = added,
                                                   !.failed = failedCnt])
    /\ UNCHANGED <<inputs, lastPct, imageFailed, episodes, loop, fetch, counters,
                   db, rl, tmVars, auxVars>>

\* -------------------------------------------------------- specification
LoopNext ==
    \/ PEL_Top
    \/ PEL_CheckPass
    \/ PEL_RateLimited
    \/ PEL_ReportPaused
    \/ PEL_Sleep
    \/ \E d \in DpValues : PEL_SubProgress(d)
    \/ \E n \in 0..MaxComments, t \in 0..1 : PEL_FetchOk(n, t)
    \/ \E f \in {"network", "other"} : PEL_FetchFault(f)
    \/ PEL_Persist

GenericNext ==
    \/ GI_Begin
    \/ \E raw \in ProviderLists : GI_List(raw)
    \/ ListFault
    \/ GI_FailoverReport
    \/ \E n \in 1..MaxComments : GI_FailoverHit(n)
    \/ GI_FailoverMiss
    \/ GI_FailoverFound
    \/ \E downloaded \in BOOLEAN : GI_FailoverPersist(downloaded)
    \/ GI_FailoverPersistRefused
    \/ \E downloaded \in BOOLEAN : GI_Entries(downloaded)
    \/ GI_Finish

EditedNext ==
    \/ \E req \in ProviderLists : EI_Begin(req)
    \/ \E downloaded \in BOOLEAN : EI_Entries(downloaded)
    \/ EI_Finish

IncrementalNext ==
    \/ IR_SourceMissing
    \/ IR_Delegate

MediaIds == {"", "m1", "m2"}

FullRefreshNext ==
    \/ FR_SourceMissing
    \/ FR_SourceMissingEnd
    \/ FR_Begin
    \/ \E raw \in ProviderLists : FR_List(raw)
    \/ FR_FailoverReport
    \/ \E new \in MediaIds : FR_FindNewMediaId(new)
    \/ FR_RetryReport
    \/ \E raw \in ProviderLists : FR_Relist(raw)
    \/ FR_NoEpisodes
    \/ FR_StartLoop
    \/ FR_Finish

RefreshEpisodeNext ==
    \/ RE_Begin
    \/ RE_InfoMissing
    \/ RE_InfoMissingReturn
    \/ RE_RateLimited
    \/ RE_CheckPass
    \/ \E d \in DpValues : RE_SubProgress(d)
    \/ \E t \in 0..1 : RE_FetchEmpty(t)
    \/ \E n \in 1..MaxComments, t \in 0..1 : RE_FetchOk(n, t)
    \/ RE_FetchFault
    \/ RE_Write

JobNext ==
    \/ StartJob
    \/ GenericNext
    \/ EditedNext
    \/ IncrementalNext
    \/ FullRefreshNext
    \/ RefreshEpisodeNext
    \/ LoopNext

\* the variables of the other specifications at rest
RLIdle ==
    /\ rlIncs = 0
    /\ rl2 = [count |-> 0, reset |-> 0, incs |-> 0]
    /\ rlLast = [seq |-> 0, provider |-> 0, res |-> "none", retry |-> 0]
MIIdle == custom = FALSE /\ items = <<>>
ROIdle ==
    /\ roDialect = "sqlite" /\ roFk = TRUE /\ roAll = {}
    /\ roRows = {} /\ roFiles = {} /\ roPre = [rows |-> {}, files |-> {}]
    /\ roK = 0 /\ roDel = {} /\ roAdd = {}
    /\ roPending = [kind |-> "none", msg |-> Msg("")]
    /\ roRun = 1
IDIdle == idArgs = <<>> /\ idOut = <<>>
BKIdle ==
    /\ bkIds = <<>> /\ bkRows = {} /\ bkSess = {} /\ bkFiles = {}
    /\ bkCount = 0 /\ bkTries = 0
DAIdle ==
    /\ daAttempt = 0 /\ daWaits = <<>> /\ daRow = FALSE /\ daSess = FALSE
    /\ daDir = "none"
RangeIdle == rgIn = <<>> /\ rgOut = <<>>
CodecIdle == cdIn = <<>> /\ cdOut = <<>>
ASIdle ==
    /\ asIn = [limiter |-> TRUE, apiKey |-> FALSE, keyword |-> TRUE,
               lib |-> "absent", src |-> "bilibili", found |-> FALSE,
               best |-> "bilibili"]
    /\ asLock = FALSE /\ asReleases = 0 /\ asSubmits = <<>>
NoColumn == [col |-> "absent", order |-> <<>>, uniq |-> FALSE]
MGIdle ==
    /\ mgDialect = "sqlite" /\ mgRows = {} /\ mgDb = NoColumn /\ mgTx = NoColumn
    /\ mgPc = "idle" /\ mgK = 0 /\ mgRuns = 0
CJIdle == cj = <<>>
BSIdle == bs = [pre |-> [rows |-> {}, files |-> {}], faults |-> 0, broken |-> FALSE]
NoOther == roOther = {} /\ daPre = [row |-> FALSE, dir |-> "none"] /\ BSIdle
LateIdle == ASIdle /\ MGIdle /\ CJIdle /\ NoOther
MoreIdle == DAIdle /\ RangeIdle /\ CodecIdle /\ LateIdle
AuxIdle == RLIdle /\ MIIdle /\ ROIdle /\ IDIdle /\ BKIdle /\ MoreIdle
TMIdle == jobs = <<>> /\ lastSubmit = [seq |-> 0, key |-> None, result |-> "none"]

Init == JobInit /\ TMIdle /\ AuxIdle
Next == JobNext
Spec == Init /\ [][Next]_vars

\* ------------------------------------------- submission queue (SpecTM)
\* Several jobs at once: what submit_task does with a unique key, and the
\* life of each job record.  A job's work is reduced to the reports it makes
\* and to the way it ends.
Providers == {"bilibili", "tencent"}
\* the provider's media ids
MediaKey(k) == <<"100", "200", "300">>[k]
MediaKeys == {MediaKey(k) : k \in 1..MaxMedia}

\* Variant: the import is submitted without a unique key
NoUniqueKey(provider, mediaId) == None
\* unique_key = f"import-{provider}-{mediaId}"     (tasks.py:1090 and 1150)
UniqueKey(provider, mediaId) == Some("import-" \o provider \o "-" \o mediaId)

NonTerminal(j) == jobs[j].status \notin Terminal
\* a PENDING/RUNNING job (PAUSED is a running job waiting out a backoff)
\* holds the key
KeyHeld(key) ==
    key # None /\ \E j \in DOMAIN jobs : jobs[j].key = key /\ NonTerminal(j)

\* submit(work, title, unique_key?): the duplicate-job signal, or a new
\* PENDING job                                                  (spec 4.1)
SubmitTask(provider, mediaId, key) ==
    IF KeyHeld(key)
    THEN /\ lastSubmit' = [seq |-> 1 - lastSubmit.seq, key |-> key,
                           result |-> "duplicate"]
         /\ UNCHANGED jobs
    ELSE /\ Len(jobs) < MaxJobs
         /\ jobs' = Append(jobs, [provider |-> provider, mediaId |-> mediaId,
                                  key |-> key, status |-> "PENDING"])
         /\ lastSubmit' = [seq |-> 1 - lastSubmit.seq, key |-> key,
                           result |-> "accepted"]

\* auto_search_and_import_task submits the import of the chosen source under
\* its unique key                       (tasks.py:1088-1101 and 1149-1161)
SubmitImport(provider, mediaId) ==
    /\ SubmitTask(provider, mediaId, UniqueKey(provider, mediaId))
    /\ UNCHANGED <<jobVars, auxVars>>

\* The manager starts a queued job.
TM_Start(j) ==
    /\ jobs[j].status = "PENDING"
    /\ jobs' = [jobs EXCEPT ![j].status = "RUNNING"]
    /\ UNCHANGED <<lastSubmit, jobVars, auxVars>>

\* The job's work calls report(percent, message, status?).
TM_Report(j, st) ==
    /\ jobs[j].status \in {"RUNNING", "PAUSED"}
    /\ jobs' = [jobs EXCEPT ![j].status = ReportStatus(st)]
    /\ UNCHANGED <<lastSubmit, jobVars, auxVars>>

\* The job's work ends: TaskSuccess, or a fault.
TM_Finish(j, st) ==
    /\ jobs[j].status = "RUNNING"
    /\ jobs' = [jobs EXCEPT ![j].status = st]
    /\ UNCHANGED <<lastSubmit, jobVars, auxVars>>

TMNext ==
    \/ \E p \in Providers, m \in MediaKeys : SubmitImport(p, m)
    \/ \E j \in DOMAIN jobs : TM_Start(j)
    \/ \E j \in DOMAIN jobs, st \in {"none", "PAUSED"} : TM_Report(j, st)
    \/ \E j \in DOMAIN jobs, st \in Terminal : TM_Finish(j, st)

\* the job variables of Spec at rest
JobIdle ==
    /\ JobInit
    /\ kind = "generic" /\ target = None /\ mediaType = "tv_series"
    /\ ~imageUrl /\ pre = EmptyDb /\ rlCount = 0

TMInit ==
    /\ jobs = <<>>
    /\ lastSubmit = [seq |-> 0, key |-> None, result |-> "none"]
    /\ JobIdle
    /\ AuxIdle
SpecTM == TMInit /\ [][TMNext]_vars

\* ------------------------------------------------ rate limiter (SpecRL)
\* The limiter of spec 4.2 on its own, with the budgets of two providers: the
\* first in rlCount/rlReset, the second in rl2.  rlIncs and rl2.incs count
\* the increments recorded since the provider's window opened.
jobNoRl == <<inputs, pc, status, result, lastPct, imageFailed, episodes, loop,
             fetch, counters, db>>
Checked(p, res, retry) ==
    [seq |-> 1 - rlLast.seq, provider |-> p, res |-> res, retry |-> retry]

\* check(provider 1)
RL_Check1 ==
    /\ IF RLCheckFails
       THEN rlLast' = Checked(1, "limited", rlReset) /\ UNCHANGED rl
       ELSE rlLast' = Checked(1, "ok", 0) /\ RLCheckPass
    /\ UNCHANGED <<jobNoRl, rlOthers, rlIncs, rl2>>
\* increment(provider 1)
RL_Increment1 ==
    /\ rlCount <= RateLimit
    /\ RLIncrement
    /\ rlIncs' = IF rlReset = 0 THEN 1 ELSE rlIncs + 1
    /\ UNCHANGED <<jobNoRl, rlOthers, rl2, rlLast>>
\* check(provider 2)
RL_Check2 ==
    /\ IF CheckFails(rl2.count, rl2.reset)
       THEN rlLast' = Checked(2, "limited", rl2.reset) /\ UNCHANGED rl2
       ELSE /\ rlLast' = Checked(2, "ok", 0)
            /\ rl2' = [rl2 EXCEPT !.count = CountAfterCheck(rl2.count, rl2.reset)]
    /\ UNCHANGED <<jobVars, rlOthers, rlIncs>>
\* increment(provider 2)
RL_Increment2 ==
    /\ rl2.count <= RateLimit
    /\ rl2' = [count |-> CountAfterIncrement(rl2.count, rl2.reset),
               reset |-> ResetAfterIncrement(rl2.count, rl2.reset),
               incs |-> IF rl2.reset = 0 THEN 1 ELSE rl2.incs + 1]
    /\ UNCHANGED <<jobVars, rlOthers, rlIncs, rlLast>>
\* One tick of the clock: a window whose end is reached is over.
RL_Tick ==
    /\ rlReset > 0 \/ rl2.reset > 0
    /\ RLElapse(1)
    /\ rlIncs' = IF rlReset' = 0 THEN 0 ELSE rlIncs
    /\ rl2' = [rl2 EXCEPT !.reset = Max(0, rl2.reset - 1),
                          !.incs = IF rl2.reset <= 1 THEN 0 ELSE rl2.incs]
    /\ UNCHANGED <<jobNoRl, rlOthers, rlLast>>

RLNext ==
    \/ RL_Check1
    \/ RL_Increment1
    \/ RL_Check2
    \/ RL_Increment2
    \/ RL_Tick
RLInit == JobIdle /\ TMIdle /\ AuxIdle
SpecRL == RLInit /\ [][RLNext]_vars

\* ----------------------------------------- tasks that fetch (SpecFetch)
\* The tasks that call a provider for comments under the rate limiter: an
\* episode-list import, a single-episode refresh and the manual imports.
FetchKinds == {"edited", "refresh_episode", "manual", "batch"}
ManualNext ==
    \/ MI_Begin
    \/ MI_Parse
    \/ MI_ParseEmpty
    \/ MI_ParseOk
    \/ \E supported \in BOOLEAN : MI_ResolveFault(supported)
    \/ MI_Resolved
    \/ MI_RateLimited
    \/ MI_CheckPass
    \/ \E d \in DpValues : MI_SubProgress(d)
    \/ \E t \in 0..1 : MI_FetchEmpty(t)
    \/ \E n \in 1..MaxComments, t \in 0..1 : MI_FetchOk(n, t)
    \/ MI_FetchFault
    \/ MI_Write
BatchNext ==
    \/ BI_Begin
    \/ BI_Top
    \/ BI_ParseEmpty
    \/ BI_ParseOk
    \/ BI_ResolveFault
    \/ BI_Resolved
    \/ BI_RateLimited
    \/ BI_ReportPaused
    \/ BI_Sleep
    \/ BI_CheckPass
    \/ \E n \in 0..MaxComments, t \in 0..1 : BI_FetchOk(n, t)
    \/ BI_FetchFault
    \/ BI_Persist
    \/ BI_Commit
    \/ BI_Finish
FetchNext ==
    \/ StartJob
    \/ EditedNext
    \/ LoopNext
    \/ RefreshEpisodeNext
    \/ ManualNext
    \/ BatchNext
FetchInit ==
    /\ JobInitFor(FetchKinds)
    /\ custom \in (IF kind \in {"manual", "batch"} THEN BOOLEAN ELSE {FALSE})
    /\ items \in (CASE kind = "manual" -> {it \in ItemLists : Len(it) = 1}
                    [] kind = "batch" -> ItemLists
                    [] OTHER -> {<<>>})
    /\ TMIdle /\ RLIdle /\ ROIdle /\ IDIdle /\ BKIdle /\ MoreIdle
SpecFetch == FetchInit /\ [][FetchNext]_vars

\* ------------------------------------------- reorder_episodes_task (SpecReorder)
\* str(n) as a sequence of decimal digits
RECURSIVE Digits(_)
Digits(n) == IF n < 10 THEN <<n>> ELSE Append(Digits(n \div 10), n % 10)
\* f"{n:0wd}": zero-padded to at least w digits, never cut
RECURSIVE ZeroPad(_, _)
ZeroPad(d, w) == IF Len(d) >= w THEN d ELSE ZeroPad(<<0>> \o d, w)
\* new_id = int(f"25{anime_id:06d}{source_order:02d}{new_index:04d}"): the
\* decimal digits of the identity (they start with 25, so the integer and
\* its digits determine each other)                          (tasks.py:768)
NewId(a, so, k) ==
    <<2, 5>> \o ZeroPad(Digits(a), 6) \o ZeroPad(Digits(so), 2) \o ZeroPad(Digits(k), 4)
\* the order of two identities as integers
IdLess(x, y) ==
    \/ Len(x) < Len(y)
    \/ /\ Len(x) = Len(y)
       /\ \E p \in 1..Len(x) : x[p] < y[p] /\ \A q \in 1..(p - 1) : x[q] = y[q]

AnimeId == 7
SourceId == 2
\* source_order = all_source_ids.index(sourceId) + 1     (tasks.py:738-746)
SourceOrder == Cardinality({x \in roAll : x <= SourceId})
\* ORDER BY episodeIndex, id                              (tasks.py:751-756)
RowBefore(a, b) ==
    \/ a.episodeIndex < b.episodeIndex
    \/ a.episodeIndex = b.episodeIndex /\ IdLess(a.id, b.id)
SortedRows(rows) ==
    CHOOSE sq \in [1..Cardinality(rows) -> rows] :
        \A p, q \in 1..Cardinality(rows) : p < q => RowBefore(sq[p], sq[q])
EpisodesToMigrate == SortedRows(roRows)

\* A stored track-file path: "/data/danmaku/{anime}/{id}.xml" as reorder
\* writes it (root "data"), or "/danmaku/{anime}/{id}.xml" as
\* _write_danmaku_file_and_update_db writes it (root "web")
\*                                                    (tasks.py:170, 773)
DataPath(id) == Some([root |-> "data", id |-> id])
WebPath(id) == Some([root |-> "web", id |-> id])
\* Path(p).relative_to('/data') raises ValueError for a path outside /data
\*                                                         (tasks.py:775)
RelativeToDataFails(path) == path[1].root # "data"
FileAt(id) == {f \in roFiles : f.at = id}
\* old_full_path.rename(new_full_path): an existing target is replaced
\*                                                    (tasks.py:777-779)
Renamed(files, old, new) ==
    IF old # new /\ \E f \in files : f.at = old
    THEN {f \in files : f.at \notin {old, new}} \cup
         {[at |-> new, content |-> f.content] : f \in {g \in files : g.at = old}}
    ELSE files

\* Variant: the new index is the 0-based position
NewIndexZeroBased(k) == k - 1
\* new_index = i + 1, for the k-th episode of the list        (tasks.py:767)
NewIndex(k) == k
\* Variant: no episode is taken for correct
NeverCorrect(ep, id, idx) == FALSE
\* if old_ep.id == new_id and old_ep.episodeIndex == new_index: continue
\*                                                    (tasks.py:770-771)
AlreadyCorrect(ep, id, idx) == ep.id = id /\ ep.episodeIndex = idx
\* orm_models.Episode(id=new_id, ..., danmakuFilePath=new_danmaku_web_path):
\* the descriptive fields (tag) are those of the old row  (tasks.py:773, 781)
NewRow(ep, id, idx) ==
    [id |-> id, episodeIndex |-> idx, tag |-> ep.tag,
     path |-> IF ep.path # None THEN DataPath(id) ELSE None]

InReorder == kind = "reorder"
roCtl == <<pc, status, outcome, msg, lastPct>>
roIdleJob == <<kind, target, mediaType, imageUrl, pre, imageFailed, episodes,
               loop, fetch, counters, db, rl>>
roOthers == <<roIdleJob, tmVars, rlgVars, miVars, idVars, bkVars, moreVars>>
Relaxes == roDialect \in {"mysql", "postgresql"}
Pending(k, m) == [kind |-> k, msg |-> m]

\* await progress_callback(0, ...)                        (tasks.py:714-718)
RO_Begin ==
    /\ InReorder /\ pc = "ro_begin"
    /\ Report(0, "none")
    /\ pc' = "ro_disable"
    /\ UNCHANGED <<result, roVars, roOthers>>

\* SET FOREIGN_KEY_CHECKS=0 / SET session_replication_role = 'replica'
\*                                                    (tasks.py:722-725)
RO_Disable ==
    /\ InReorder /\ pc = "ro_disable"
    /\ roFk' = (IF Relaxes THEN FALSE ELSE roFk)
    /\ pc' = "ro_commit0"
    /\ UNCHANGED <<status, result, lastPct, roDialect, roAll, roRows, roFiles,
                   roPre, roK, roDel, roAdd, roPending, roRun, roOthers>>

\* the statement itself raises: the outer handler raises it again
\*                                          (tasks.py:722-725, 807-809)
RO_DisableFault ==
    /\ InReorder /\ pc = "ro_disable"
    /\ Relaxes
    /\ RaiseFault(Msg("db_fault"))
    /\ UNCHANGED <<lastPct, roVars, roOthers>>

\* await session.commit()                                    (tasks.py:728)
RO_Commit0 ==
    /\ InReorder /\ pc = "ro_commit0"
    /\ pc' = "ro_load"
    /\ UNCHANGED <<status, result, lastPct, roVars, roOthers>>

\* that commit raises: outside the inner try, so its finally is not run.
\* MySQL's FOREIGN_KEY_CHECKS is a session setting that no transaction
\* undoes; PostgreSQL undoes a SET with the transaction that fails.
\*                                               (tasks.py:728, 807-809)
RO_Commit0Fault ==
    /\ InReorder /\ pc = "ro_commit0"
    /\ roFk' = (IF roDialect = "postgresql" THEN TRUE ELSE roFk)
    /\ RaiseFault(Msg("db_fault"))
    /\ UNCHANGED <<lastPct, roDialect, roAll, roRows, roFiles, roPre, roK, roDel,
                   roAdd, roPending, roRun, roOthers>>

\* source_info is missing: ValueError                  (tasks.py:732-734)
RO_SourceMissing ==
    /\ InReorder /\ pc = "ro_load"
    /\ SourceId \notin roAll
    /\ roPending' = Pending("fault", Msg("source_not_found"))
    /\ pc' = "ro_finally"
    /\ UNCHANGED <<status, result, lastPct, roDialect, roFk, roAll, roRows,
                   roFiles, roPre, roK, roDel, roAdd, roRun, roOthers>>

\* the source has no episode: TaskSuccess              (tasks.py:735-759)
RO_NoEpisodes ==
    /\ InReorder /\ pc = "ro_load"
    /\ SourceId \in roAll /\ roRows = {}
    /\ roPending' = Pending("success", Msg("reorder_no_episodes"))
    /\ pc' = "ro_finally"
    /\ UNCHANGED <<status, result, lastPct, roDialect, roFk, roAll, roRows,
                   roFiles, roPre, roK, roDel, roAdd, roRun, roOthers>>

\* await progress_callback(10, ...)                    (tasks.py:735-764)
RO_Load ==
    /\ InReorder /\ pc = "ro_load"
    /\ SourceId \in roAll /\ roRows # {}
    /\ Report(10, "none")
    /\ roK' = 0 /\ roDel' = {} /\ roAdd' = {}
    /\ pc' = "ro_loop"
    /\ UNCHANGED <<result, roDialect, roFk, roAll, roRows, roFiles, roPre,
                   roPending, roRun, roOthers>>

\* One pass of the for loop: the k-th episode is skipped, or its file is
\* moved and its rows are staged; relative_to raises ValueError for a path
\* that is not under /data                              (tasks.py:766-782)
RO_Episode ==
    /\ InReorder /\ pc = "ro_loop" /\ roK < Cardinality(roRows)
    /\ LET k == roK + 1
           ep == EpisodesToMigrate[k]
           idx == NewIndex(k)
           id == NewId(AnimeId, SourceOrder, idx)
       IN  IF AlreadyCorrect(ep, id, idx)
           THEN /\ roK' = k
                /\ UNCHANGED <<pc, roFiles, roDel, roAdd, roPending>>
           ELSE IF ep.path # None /\ RelativeToDataFails(ep.path)
           THEN /\ roPending' = Pending("fault", Msg("ValueError"))
                /\ pc' = "ro_finally"
                /\ UNCHANGED <<roK, roFiles, roDel, roAdd>>
           ELSE /\ roFiles' = (IF ep.path # None
                               THEN Renamed(roFiles, ep.path[1].id, id)
                               ELSE roFiles)
                /\ roAdd' = roAdd \cup {NewRow(ep, id, idx)}
                /\ roDel' = roDel \cup {ep}
                /\ roK' = k
                /\ UNCHANGED <<pc, roPending>>
    /\ UNCHANGED <<status, result, lastPct, roDialect, roFk, roAll, roRows,
                   roPre, roRun, roOthers>>

\* mkdir or rename raises OSError                      (tasks.py:777-779)
RO_RenameFault ==
    /\ InReorder /\ pc = "ro_loop" /\ roK < Cardinality(roRows)
    /\ LET ep == EpisodesToMigrate[roK + 1]
           id == NewId(AnimeId, SourceOrder, NewIndex(roK + 1))
       IN  /\ ~AlreadyCorrect(ep, id, NewIndex(roK + 1))
           /\ ep.path # None /\ ~RelativeToDataFails(ep.path)
           /\ FileAt(ep.path[1].id) # {} /\ ep.path[1].id # id
    /\ roPending' = Pending("fault", Msg("OSError"))
    /\ pc' = "ro_finally"
    /\ UNCHANGED <<status, result, lastPct, roDialect, roFk, roAll, roRows,
                   roFiles, roPre, roK, roDel, roAdd, roRun, roOthers>>

\* if not old_episodes_to_delete: raise TaskSuccess(...)  (tasks.py:784-785)
RO_NothingToDo ==
    /\ InReorder /\ pc = "ro_loop" /\ roK = Cardinality(roRows)
    /\ roDel = {}
    /\ roPending' = Pending("success", Msg("reorder_noop"))
    /\ pc' = "ro_finally"
    /\ UNCHANGED <<status, result, lastPct, roDialect, roFk, roAll, roRows,
                   roFiles, roPre, roK, roDel, roAdd, roRun, roOthers>>

\* await progress_callback(30, ...)                          (tasks.py:787)
RO_Staged ==
    /\ InReorder /\ pc = "ro_loop" /\ roK = Cardinality(roRows)
    /\ roDel # {}
    /\ Report(30, "none")
    /\ pc' = "ro_apply"
    /\ UNCHANGED <<result, roVars, roOthers>>

\* a new row's identity is the primary key of a row of another source: the
\* INSERT fails                                           (tasks.py:792-794)
PrimaryKeyTaken == \E a \in roAdd, o \in roOther : a.id = o.id
\* delete, flush, add_all, commit, TaskSuccess         (tasks.py:789-795)
RO_Apply ==
    /\ InReorder /\ pc = "ro_apply"
    /\ ~PrimaryKeyTaken
    /\ roRows' = (roRows \ roDel) \cup roAdd
    /\ roPending' = Pending("success",
                            [Msg("reorder_done") EXCEPT !.added = Cardinality(roAdd)])
    /\ pc' = "ro_finally"
    /\ UNCHANGED <<status, result, lastPct, roDialect, roFk, roAll, roFiles,
                   roPre, roK, roDel, roAdd, roRun, roOthers>>

\* delete, flush or commit raises: rollback              (tasks.py:789-799)
RO_ApplyFault ==
    /\ InReorder /\ pc = "ro_apply"
    /\ roPending' = Pending("fault", Msg("db_fault"))
    /\ pc' = "ro_finally"
    /\ UNCHANGED <<status, result, lastPct, roDialect, roFk, roAll, roRows,
                   roFiles, roPre, roK, roDel, roAdd, roRun, roOthers>>

\* finally: SET FOREIGN_KEY_CHECKS=1 / session_replication_role = 'origin',
\* commit; what was raised is raised on                  (tasks.py:800-809)
RO_Finally ==
    /\ InReorder /\ pc = "ro_finally"
    /\ roFk' = (IF Relaxes THEN TRUE ELSE roFk)
    /\ IF roPending.kind = "success"
       THEN RaiseTaskSuccess(roPending.msg)
       ELSE RaiseFault(roPending.msg)
    /\ UNCHANGED <<lastPct, roDialect, roAll, roRows, roFiles, roPre, roK, roDel,
                   roAdd, roPending, roRun, roOthers>>

\* The task is run once more on the source as the first, successful run
\* left it.
RO_Again ==
    /\ InReorder /\ pc = "done" /\ outcome = "success" /\ roRun = 1
    /\ roRun' = 2
    /\ roPre' = [rows |-> roRows, files |-> roFiles]
    /\ roK' = 0 /\ roDel' = {} /\ roAdd' = {}
    /\ roPending' = Pending("none", Msg(""))
    /\ pc' = "ro_begin"
    /\ status' = "RUNNING"
    /\ outcome' = "none" /\ msg' = Msg("")
    /\ lastPct' = 0
    /\ UNCHANGED <<roDialect, roFk, roAll, roRows, roFiles, roOthers>>

ReorderNext ==
    \/ StartJob
    \/ RO_Begin
    \/ RO_Disable
    \/ RO_DisableFault
    \/ RO_Commit0
    \/ RO_Commit0Fault
    \/ RO_SourceMissing
    \/ RO_NoEpisodes
    \/ RO_Load
    \/ RO_Episode
    \/ RO_RenameFault
    \/ RO_NothingToDo
    \/ RO_Staged
    \/ RO_Apply
    \/ RO_ApplyFault
    \/ RO_Finally
    \/ RO_Again

\* The source's episodes before the task: identities of the encoding for
\* source order 1, any indices, and for each episode no track file, one whose
\* path reorder stored, or one whose path the import pipeline stored.
RowSets ==
    {{[id |-> NewId(AnimeId, 1, k), episodeIndex |-> idx[k], tag |-> k,
       path |-> CASE root[k] = "none" -> None
                  [] root[k] = "data" -> DataPath(NewId(AnimeId, 1, k))
                  [] OTHER -> WebPath(NewId(AnimeId, 1, k))] : k \in K} :
        K \in SUBSET (1..MaxRows),
        idx \in [1..MaxRows -> 1..(MaxRows + 1)],
        root \in [1..MaxRows -> {"none", "data", "web"}]}
FilesOf(rows) ==
    {[at |-> r.path[1].id, content |-> r.tag] : r \in {x \in rows : x.path # None}}

\* Source 1 of the work took its identities when it was the work's second
\* source (a source of lower id has been deleted since): it holds no episode,
\* or one whose identity is that of source order 2, with its track file.
OtherRows ==
    {{}, {[id |-> NewId(AnimeId, 2, 1), source |-> 1, content |-> MaxRows + 1]}}
OtherFiles == {[at |-> o.id, content |-> o.content] : o \in roOther}
ReorderInit ==
    /\ JobInitFor({"reorder"})
    /\ pre = EmptyDb /\ rlCount = 0
    /\ TMIdle /\ RLIdle /\ MIIdle /\ IDIdle /\ BKIdle
    /\ DAIdle /\ RangeIdle /\ CodecIdle /\ ASIdle /\ MGIdle /\ CJIdle
    /\ daPre = [row |-> FALSE, dir |-> "none"] /\ BSIdle
    /\ roDialect \in {"mysql", "postgresql", "sqlite"}
    /\ roFk = TRUE
    /\ roAll \in {{}, {SourceId}, {1, SourceId}}
    /\ roRows \in (IF roAll = {} THEN {{}} ELSE RowSets)
    /\ roOther \in (IF 1 \in roAll THEN OtherRows ELSE {{}})
    /\ roFiles = FilesOf(roRows) \cup OtherFiles
    /\ roPre = [rows |-> roRows, files |-> roFiles]
    /\ roK = 0 /\ roDel = {} /\ roAdd = {}
    /\ roPending = Pending("none", Msg(""))
    /\ roRun = 1
SpecReorder == ReorderInit /\ [][ReorderNext]_vars

\* ------------------------------------------- the episode identity (SpecId)
\* The identity is computed from integers that nothing in the task bounds:
\* anime_id is a key of the anime table, source_order a count of the work's
\* sources, new_index a count of the source's episodes.   (tasks.py:738-768)
IdAnimeIds == {1, 100000, 1000001}
IdSourceOrders == {1, 2, 101}
IdIndices == {1, 2}
IdTriples ==
    {[a |-> a, so |-> so, k |-> k] :
        a \in IdAnimeIds, so \in IdSourceOrders, k \in IdIndices}
idOthers == <<jobVars, tmVars, rlgVars, miVars, roVars, bkVars, moreVars>>

\* new_id for each of the two triples                        (tasks.py:768)
ID_Compute ==
    /\ idOut = <<>>
    /\ idOut' = <<NewId(idArgs[1].a, idArgs[1].so, idArgs[1].k),
                  NewId(idArgs[2].a, idArgs[2].so, idArgs[2].k)>>
    /\ UNCHANGED <<idArgs, idOthers>>

IdNext == ID_Compute
IdInit ==
    /\ JobIdle /\ TMIdle /\ RLIdle /\ MIIdle /\ ROIdle /\ BKIdle /\ MoreIdle
    /\ idArgs \in IdTriples \X IdTriples
    /\ idOut = <<>>
SpecId == IdInit /\ [][IdNext]_vars

\* --------------------------------------- delete_bulk_episodes_task (SpecBulk)
InBulk == kind = "bulk_episodes"
bkIdleJob == <<kind, target, mediaType, imageUrl, pre, imageFailed, episodes,
               added, failedCnt, fetch, counters, db, rl>>
bkOthers == <<bkIdleJob, tmVars, rlgVars, miVars, roVars, idVars, moreVars>>
BulkRow(id) == CHOOSE r \in bkSess : r.id = id
\* _delete_danmaku_file(path): unlinks DANMAKU_BASE_DIR.parent / path.lstrip('/')
\* if that is a file. The file was written at DANMAKU_BASE_DIR/{anime}/{id}.xml:
\* the stored path "/danmaku/{anime}/{id}.xml" ("web") resolves to it, the
\* path "/data/danmaku/{anime}/{id}.xml" that reorder stores ("data") resolves
\* to .../data/danmaku/..., where no file is; None returns at once.
\*                                                 (tasks.py:174-190, 773)
Unlinks(path) == path = "web"
\* progress = 5 + int(((i + 1) / total) * 90)                 (tasks.py:353)
BulkProgress(k, total) == 5 + (k * 90) \div total

\* await progress_callback(5, ...); deleted_count = 0      (tasks.py:348-350)
BK_Begin ==
    /\ InBulk /\ pc = "bk_begin"
    /\ Report(5, "none")
    /\ i' = 0 /\ bkCount' = 0
    /\ pc' = "bk_top"
    /\ UNCHANGED <<result, bkIds, bkRows, bkSess, bkFiles, bkTries, bkOthers>>

\* the next item: its progress report                       (tasks.py:352-354)
BK_Top ==
    /\ InBulk /\ pc = "bk_top" /\ i < Len(bkIds)
    /\ Report(BulkProgress(i + 1, Len(bkIds)), "none")
    /\ bkTries' = 0
    /\ pc' = "bk_get"
    /\ UNCHANGED <<result, i, bkIds, bkRows, bkSess, bkFiles, bkCount, bkOthers>>

\* session.get finds no such episode: the item is passed over
\*                                                      (tasks.py:356-357)
BK_Missing ==
    /\ InBulk /\ pc = "bk_get"
    /\ ~\E r \in bkSess : r.id = bkIds[i + 1]
    /\ i' = i + 1
    /\ pc' = "bk_top"
    /\ UNCHANGED <<status, result, lastPct, bkVars, bkOthers>>

\* _delete_danmaku_file unlinks the episode's file, session.delete marks the
\* row, deleted_count += 1                               (tasks.py:357-360)
BK_Delete ==
    /\ InBulk /\ pc = "bk_get"
    /\ \E r \in bkSess : r.id = bkIds[i + 1]
    /\ bkFiles' = (IF Unlinks(BulkRow(bkIds[i + 1]).path)
                   THEN bkFiles \ {bkIds[i + 1]} ELSE bkFiles)
    /\ bkSess' = bkSess \ {BulkRow(bkIds[i + 1])}
    /\ bkCount' = bkCount + 1
    /\ bkTries' = bkTries + 1
    /\ pc' = "bk_commit"
    /\ UNCHANGED <<status, result, lastPct, i, bkIds, bkRows, bkOthers>>

\* await session.commit(); await asyncio.sleep(0.1)      (tasks.py:362-366)
BK_Commit ==
    /\ InBulk /\ pc = "bk_commit"
    /\ bkRows' = bkSess
    /\ i' = i + 1
    /\ pc' = "bk_top"
    /\ UNCHANGED <<status, result, lastPct, bkIds, bkSess, bkFiles, bkCount,
                   bkTries, bkOthers>>

\* session.get, or the commit that sends the DELETE, raises (a lock wait
\* timeout among other faults): rollback, raise          (tasks.py:372-375)
BK_Fault(m) ==
    /\ InBulk /\ pc \in {"bk_get", "bk_commit"}
    /\ bkSess' = bkRows
    /\ RaiseFault(Msg(m))
    /\ UNCHANGED <<lastPct, i, bkIds, bkRows, bkFiles, bkCount, bkTries, bkOthers>>

\* raise TaskSuccess(...)                                (tasks.py:368-371)
BK_Finish ==
    /\ InBulk /\ pc = "bk_top" /\ i = Len(bkIds)
    /\ RaiseTaskSuccess([Msg("bulk_deleted") EXCEPT !.added = bkCount])
    /\ UNCHANGED <<lastPct, i, bkVars, bkOthers>>

BulkNext ==
    \/ StartJob
    \/ BK_Begin
    \/ BK_Top
    \/ BK_Missing
    \/ BK_Delete
    \/ BK_Commit
    \/ \E m \in {"lock_timeout", "db_fault"} : BK_Fault(m)
    \/ BK_Finish

\* episodeIds: up to MaxBulk ids, each once; the table holds some of the
\* episodes 1..MaxBulk+1, each without a track file or with one whose path
\* was stored by the import pipeline ("web") or by reorder ("data").
BulkIdLists ==
    {s \in SeqsUpTo(1..(MaxBulk + 1), MaxBulk) :
        \A p, q \in 1..Len(s) : p # q => s[p] # s[q]}
BulkTables ==
    {{[id |-> n, path |-> hp[n]] : n \in S} :
        S \in SUBSET (1..(MaxBulk + 1)),
        hp \in [1..(MaxBulk + 1) -> {"none", "web", "data"}]}
BulkInit ==
    /\ JobInitFor({"bulk_episodes"})
    /\ pre = EmptyDb /\ rlCount = 0
    /\ TMIdle /\ RLIdle /\ MIIdle /\ ROIdle /\ IDIdle /\ MoreIdle
    /\ bkIds \in BulkIdLists
    /\ bkRows \in BulkTables
    /\ bkSess = bkRows
    /\ bkFiles = {r.id : r \in {x \in bkRows : x.path # "none"}}
    /\ bkCount = 0 /\ bkTries = 0
SpecBulk == BulkInit /\ [][BulkNext]_vars

\* ---------------------------------------------- delete_anime_task (SpecDelete)
InDeleteAnime == kind = "delete_anime"
\* max_retries = 3                                           (tasks.py:193)
MaxRetries == 3
\* 2 ** n
RECURSIVE Pow2(_)
Pow2(n) == IF n = 0 THEN 1 ELSE 2 * Pow2(n - 1)
\* Variant: the same wait before every retry
WaitTimeFlat(attempt) == 2
\* wait_time = 2 ** (attempt + 1)                            (tasks.py:219)
WaitTime(attempt) == Pow2(attempt + 1)
\* "Lock wait timeout exceeded" in str(e) and attempt < max_retries - 1, for
\* an OperationalError e                                  (tasks.py:216-218)
Retried(f, attempt) == f = "lock_timeout" /\ attempt < MaxRetries - 1
daIdleJob == <<kind, target, mediaType, imageUrl, pre, imageFailed, episodes,
               loop, fetch, counters, db, rl>>
daOthers == <<daIdleJob, tmVars, rlgVars, miVars, roVars, idVars, bkVars, pureVars,
              lateVars>>

\* await progress_callback(0, ...) at the start of an attempt (tasks.py:194-196)
DA_Begin ==
    /\ InDeleteAnime /\ pc = "da_begin"
    /\ Report(0, "none")
    /\ pc' = "da_get"
    /\ UNCHANGED <<result, daVars, daOthers>>

\* the work is not found: TaskSuccess                     (tasks.py:199-201)
DA_Missing ==
    /\ InDeleteAnime /\ pc = "da_get"
    /\ ~daSess
    /\ RaiseTaskSuccess(Msg("delete_not_found"))
    /\ UNCHANGED <<lastPct, daVars, daOthers>>

\* await progress_callback(50, ...)                       (tasks.py:199-204)
DA_Found ==
    /\ InDeleteAnime /\ pc = "da_get"
    /\ daSess
    /\ Report(50, "none")
    /\ pc' = "da_rmtree"
    /\ UNCHANGED <<result, daVars, daOthers>>

\* shutil.rmtree of the work's directory, if it exists    (tasks.py:205-208)
DA_Rmtree ==
    /\ InDeleteAnime /\ pc = "da_rmtree"
    /\ daDir' = "none"
    /\ pc' = "da_report90"
    /\ UNCHANGED <<status, result, lastPct, daAttempt, daWaits, daRow, daSess,
                   daOthers>>

\* await progress_callback(90, ...)                          (tasks.py:211)
DA_Report90 ==
    /\ InDeleteAnime /\ pc = "da_report90"
    /\ Report(90, "none")
    /\ pc' = "da_commit"
    /\ UNCHANGED <<result, daVars, daOthers>>

\* session.delete, commit, TaskSuccess                    (tasks.py:212-215)
DA_Commit ==
    /\ InDeleteAnime /\ pc = "da_commit"
    /\ daRow' = FALSE /\ daSess' = FALSE
    /\ RaiseTaskSuccess(Msg("deleted"))
    /\ UNCHANGED <<lastPct, daAttempt, daWaits, daDir, daOthers>>

\* An OperationalError of session.get or of the commit that is a lock wait
\* timeout, before the last attempt: rollback, progress_callback(0, ...)
\*                                                      (tasks.py:216-221)
DA_LockTimeout ==
    /\ InDeleteAnime /\ pc \in {"da_get", "da_commit"}
    /\ Retried("lock_timeout", daAttempt)
    /\ daSess' = daRow
    /\ Report(0, "none")
    /\ pc' = "da_sleep"
    /\ UNCHANGED <<result, daAttempt, daWaits, daRow, daDir, daOthers>>

\* await asyncio.sleep(wait_time); continue               (tasks.py:219-223)
DA_Sleep ==
    /\ InDeleteAnime /\ pc = "da_sleep"
    /\ daWaits' = Append(daWaits, WaitTime(daAttempt))
    /\ daAttempt' = daAttempt + 1
    /\ pc' = "da_begin"
    /\ UNCHANGED <<status, result, lastPct, daRow, daSess, daDir, daOthers>>

\* While the task sleeps, the job that holds the lock goes on: an import of
\* the work writes a track file and so creates the directory again
\*                                                 (tasks.py:161-162, 222)
DA_OtherWrites ==
    /\ InDeleteAnime /\ pc = "da_sleep"
    /\ daRow /\ daDir # "files"
    /\ daDir' = "files"
    /\ UNCHANGED <<pc, status, result, lastPct, daAttempt, daWaits, daRow, daSess,
                   daOthers>>

\* Any other fault: an OperationalError that is not retried (lock timeout on
\* the last attempt, or another text), or another exception (rmtree's OSError
\* included): rollback, raise                              (tasks.py:216-232)
DA_Fault(f) ==
    /\ InDeleteAnime
    /\ \/ pc \in {"da_get", "da_commit"} /\ f \in {"lock_timeout", "operational", "other"}
       \/ pc = "da_rmtree" /\ f = "other"
    /\ ~Retried(f, daAttempt)
    /\ daSess' = daRow
    /\ RaiseFault(Msg(f))
    /\ UNCHANGED <<lastPct, daAttempt, daWaits, daRow, daDir, daOthers>>

DeleteNext ==
    \/ StartJob
    \/ DA_Begin
    \/ DA_Missing
    \/ DA_Found
    \/ DA_Rmtree
    \/ DA_Report90
    \/ DA_Commit
    \/ DA_LockTimeout
    \/ DA_Sleep
    \/ DA_OtherWrites
    \/ \E f \in {"lock_timeout", "operational", "other"} : DA_Fault(f)

DeleteInit ==
    /\ JobInitFor({"delete_anime"})
    /\ pre = EmptyDb /\ rlCount = 0
    /\ TMIdle /\ RLIdle /\ MIIdle /\ ROIdle /\ IDIdle /\ BKIdle
    /\ RangeIdle /\ CodecIdle /\ ASIdle /\ MGIdle /\ CJIdle /\ roOther = {} /\ BSIdle
    /\ daAttempt = 0 /\ daWaits = <<>>
    /\ daRow \in BOOLEAN /\ daSess = daRow
    /\ daDir \in {"none", "empty", "files"}
    /\ daPre = [row |-> daRow, dir |-> daDir]
SpecDelete == DeleteInit /\ [][DeleteNext]_vars

\* ------------------------------- _generate_episode_range_string (SpecRange)
\* sorted(list(set(episode_indices)))                          (tasks.py:69)
RECURSIVE SortedSeq(_)
SortedSeq(S) ==
    IF S = {} THEN <<>>
    ELSE LET m == CHOOSE x \in S : \A y \in S : x <= y
         IN  <<m>> \o SortedSeq(S \ {m})
\* str(start) if start == end else f"{start}-{end}"         (tasks.py:80, 82)
RangeToken(start, end) ==
    IF start = end THEN [kind |-> "single", lo |-> start, hi |-> start]
    ELSE [kind |-> "range", lo |-> start, hi |-> end]
\* Variant: no index continues a run
NeverContinues(x, end) == FALSE
\* if indices[i] == end + 1                                    (tasks.py:77)
ContinuesRun(x, end) == x = end + 1
\* the for loop and the append after it                     (tasks.py:76-82)
RECURSIVE RangeLoop(_, _, _, _, _)
RangeLoop(indices, k, start, end, ranges) ==
    IF k > Len(indices) THEN Append(ranges, RangeToken(start, end))
    ELSE IF ContinuesRun(indices[k], end)
         THEN RangeLoop(indices, k + 1, start, indices[k], ranges)
         ELSE RangeLoop(indices, k + 1, indices[k], indices[k],
                        Append(ranges, RangeToken(start, end)))
\* The string as the sequence of the tokens that ", ".join puts together; the
\* empty list gives the one word for "none".               (tasks.py:66-83)
GenerateEpisodeRangeString(episode_indices) ==
    IF episode_indices = <<>> THEN <<[kind |-> "none", lo |-> 0, hi |-> 0]>>
    ELSE LET indices == SortedSeq({episode_indices[k] : k \in 1..Len(episode_indices)})
         IN  RangeLoop(indices, 2, indices[1], indices[1], <<>>)
rgOthers == <<jobVars, tmVars, rlgVars, miVars, roVars, idVars, bkVars, daVars,
              cdIn, cdOut, lateVars>>

RG_Generate ==
    /\ rgOut = None
    /\ rgOut' = Some(GenerateEpisodeRangeString(rgIn))
    /\ UNCHANGED <<rgIn, rgOthers>>

RangeNext == RG_Generate
RangeInit ==
    /\ JobIdle /\ TMIdle /\ RLIdle /\ MIIdle /\ ROIdle /\ IDIdle /\ BKIdle
    /\ DAIdle /\ CodecIdle /\ LateIdle
    /\ rgIn \in SeqsUpTo(1..MaxRangeIdx, MaxRangeLen)
    /\ rgOut = None
SpecRange == RangeInit /\ [][RangeNext]_vars

\* ------------------------- _generate_dandan_xml / _parse_xml_content (SpecCodec)
\* A comment is {'p': ..., 'm': ...}: p as the list of its comma-separated
\* parts, m one of a few texts: a plain one, one with a character that must be
\* escaped, the empty one, one with a control character that XML 1.0 forbids.
CodecPs ==
    {<<"1.5", "1", "25", "16777215">>,
     <<"1.5", "1", "16777215">>,
     <<"1.5", "1", "16777215", "[src]">>,
     <<"1.5", "1", "25", "16777215", "[src]">>,
     <<"1.5", "1">>}
CodecTexts == {"hi", "a<b", "", "\\b"}
CodecComments == {[p |-> pp, m |-> t] : pp \in CodecPs, t \in CodecTexts}
IsTag(part) == part \in {"[src]", "[custom_xml]"}
\* xml_escape(m) and what the XML parser makes of it again     (tasks.py:100)
XmlEscape(t) == IF t = "a<b" THEN "a&lt;b" ELSE t
XmlUnescape(t) == IF t = "a&lt;b" THEN "a<b" ELSE t
\* core_parts_count: the position of the first part that holds a tag, or the
\* number of parts                                       (tasks.py:106-111)
CorePartsCount(parts) ==
    IF \E k \in 1..Len(parts) : IsTag(parts[k])
    THEN (CHOOSE k \in 1..Len(parts) :
             IsTag(parts[k]) /\ \A j \in 1..(k - 1) : ~IsTag(parts[j])) - 1
    ELSE Len(parts)
\* Variant: the size is never inserted
KeepParts(parts) == parts
\* if core_parts_count == 3: p_parts.insert(2, '25')    (tasks.py:113-116)
WithDefaultSize(parts) ==
    IF CorePartsCount(parts) = 3
    THEN SubSeq(parts, 1, 2) \o <<"25">> \o SubSeq(parts, 3, Len(parts))
    ELSE parts
\* One <d p="...">content</d> element of the document         (tasks.py:118)
DElement(c) == [p |-> WithDefaultSize(c.p), content |-> XmlEscape(c.m)]
\* The document: its <d> elements in order                 (tasks.py:85-120)
RECURSIVE GenerateDandanXml(_)
GenerateDandanXml(cs) ==
    IF cs = <<>> THEN <<>>
    ELSE <<DElement(Head(cs))>> \o GenerateDandanXml(Tail(cs))
\* the parser raises ParseError at this element
NotWellFormed(el) == el.content = "\\b"
\* What _parse_xml_content appends for one element: nothing when the element
\* has no text, the first four parts and '[custom_xml]' when p has four parts
\* or more, the attribute as it is otherwise               (tasks.py:42-53)
ParsedElement(el) ==
    IF el.content = "" THEN <<>>
    ELSE IF Len(el.p) >= 4
         THEN <<[p |-> SubSeq(el.p, 1, 4) \o <<"[custom_xml]">>,
                 m |-> XmlUnescape(el.content)]>>
         ELSE <<[p |-> el.p, m |-> XmlUnescape(el.content)]>>
\* iterparse until the document ends or ParseError is raised: what was parsed
\* before the error is returned                            (tasks.py:36-59)
RECURSIVE ParseXmlContent(_)
ParseXmlContent(doc) ==
    IF doc = <<>> \/ NotWellFormed(Head(doc)) THEN <<>>
    ELSE ParsedElement(Head(doc)) \o ParseXmlContent(Tail(doc))
cdOthers == <<jobVars, tmVars, rlgVars, miVars, roVars, idVars, bkVars, daVars,
              rgIn, rgOut, lateVars>>

CD_Generate ==
    /\ cdOut = <<>>
    /\ cdOut' = [doc |-> GenerateDandanXml(cdIn), parsed |-> None]
    /\ UNCHANGED <<cdIn, cdOthers>>

CD_Parse ==
    /\ cdOut # <<>> /\ cdOut.parsed = None
    /\ cdOut' = [cdOut EXCEPT !.parsed = Some(ParseXmlContent(cdOut.doc))]
    /\ UNCHANGED <<cdIn, cdOthers>>

CodecNext == CD_Generate \/ CD_Parse
CodecInit ==
    /\ JobIdle /\ TMIdle /\ RLIdle /\ MIIdle /\ ROIdle /\ IDIdle /\ BKIdle
    /\ DAIdle /\ RangeIdle /\ LateIdle
    /\ cdIn \in SeqsUpTo(CodecComments, MaxCodecLen)
    /\ cdOut = <<>>
SpecCodec == CodecInit /\ [][CodecNext]_vars

\* ------------------------------------ auto_search_and_import_task (SpecAuto)
\* The task that looks a title up and hands the import of the chosen source
\* to the manager. The caller took the search lock of api_key before it
\* submitted the task; the task's try/finally gives it back.
InAuto == kind = "auto"
asIdleJob == <<kind, target, mediaType, imageUrl, pre, imageFailed, episodes,
               loop, fetch, counters, db, rl>>
asOthers == <<asIdleJob, rlgVars, miVars, roVars, idVars, bkVars, daVars, pureVars,
              mgVars, cj, roOther, daPre, bs>>
asRest == <<asIn, asLock, asReleases, asSubmits, tmVars, asOthers>>

\* `raise` inside the try: the finally clause runs before the manager sees
\* how the task ended                                  (tasks.py:991, 1162)
Raised(o, m) ==
    /\ outcome' = o
    /\ msg' = m
    /\ pc' = "as_finally"
    /\ UNCHANGED <<status, lastPct>>

\* if rate_limiter is None: raise ValueError(...)        (tasks.py:992-996)
AS_NoLimiter ==
    /\ InAuto /\ pc = "as_begin"
    /\ ~asIn.limiter
    /\ Raised("fault", Msg("no_rate_limiter"))
    /\ UNCHANGED asRest

\* await progress_callback(5, ...)                      (tasks.py:998-1012)
AS_Begin ==
    /\ InAuto /\ pc = "as_begin"
    /\ asIn.limiter
    /\ Report(5, "none")
    /\ pc' = IF asIn.keyword THEN "as_library" ELSE "as_meta"
    /\ UNCHANGED <<result, asRest>>

\* search_type != "keyword": progress 10, then get_details; a fault of the
\* metadata source is logged and the task goes on        (tasks.py:1015-1066)
AS_Metadata ==
    /\ InAuto /\ pc = "as_meta"
    /\ Report(10, "none")
    /\ pc' = "as_library"
    /\ UNCHANGED <<result, asRest>>

\* progress 20; find_anime_by_title_and_season, and the choice of a source
\* of the work found                                     (tasks.py:1068-1084)
AS_Library ==
    /\ InAuto /\ pc = "as_library"
    /\ Report(20, "none")
    /\ pc' = IF asIn.lib = "source" THEN "as_submit_lib" ELSE "as_search"
    /\ UNCHANGED <<result, asRest>>

\* unique_key = f"import-{provider}-{mediaId}"; await task_manager.submit_task(
\* task_coro, title, unique_key=unique_key); raise TaskSuccess(...). A held
\* key makes submit_task raise, which ends the try block.
\*                                         (tasks.py:1088-1101, 1149-1162)
AS_SubmitTo(p, atPc, pct, okMsg) ==
    /\ InAuto /\ pc = atPc
    /\ lastPct' = pct
    /\ SubmitTask(p, MediaKey(1), UniqueKey(p, MediaKey(1)))
    /\ IF KeyHeld(UniqueKey(p, MediaKey(1)))
       THEN /\ outcome' = "fault" /\ msg' = Msg("duplicate")
            /\ UNCHANGED asSubmits
       ELSE /\ outcome' = "success" /\ msg' = Msg(okMsg)
            /\ asSubmits' = Append(asSubmits, UniqueKey(p, MediaKey(1)))
    /\ pc' = "as_finally"
    /\ UNCHANGED <<status, asIn, asLock, asReleases, asOthers>>

\* the work is in the library and has a source           (tasks.py:1086-1101)
AS_SubmitLibrary == AS_SubmitTo(asIn.src, "as_submit_lib", 30, "in_library")

\* progress 40; search_all and the alias filter: no result raises
\* ValueError                                            (tasks.py:1103-1127)
AS_SearchEmpty ==
    /\ InAuto /\ pc = "as_search"
    /\ ~asIn.found
    /\ lastPct' = 40
    /\ outcome' = "fault" /\ msg' = Msg("no_result")
    /\ pc' = "as_finally"
    /\ UNCHANGED <<status, asRest>>

\* the results are sorted and the first is taken         (tasks.py:1128-1146)
AS_SearchFound ==
    /\ InAuto /\ pc = "as_search"
    /\ asIn.found
    /\ Report(40, "none")
    /\ pc' = "as_submit_best"
    /\ UNCHANGED <<result, asRest>>

\* progress 80; the best match is submitted              (tasks.py:1148-1162)
AS_SubmitBest == AS_SubmitTo(asIn.best, "as_submit_best", 80, "best_match")

\* any awaited call inside the try raises (the catalog, the search, the
\* progress report)                                      (tasks.py:991-1162)
AS_Fault ==
    /\ InAuto /\ pc \in {"as_begin", "as_library", "as_search", "as_submit_lib",
                         "as_submit_best"}
    /\ pc = "as_begin" => asIn.limiter
    /\ Raised("fault", Msg("fault"))
    /\ UNCHANGED asRest

\* Variant: the lock is given back at the end of the try block only
ReleasesOnSuccessOnly(o) == asIn.apiKey /\ o = "success"
\* finally: if api_key: await scraper_manager.release_search_lock(api_key)
\*                                                      (tasks.py:1163-1166)
Releases(o) == asIn.apiKey
\* the finally clause, then the manager records how the task ended
AS_Finally ==
    /\ InAuto /\ pc = "as_finally"
    /\ IF Releases(outcome)
       THEN asLock' = FALSE /\ asReleases' = asReleases + 1
       ELSE UNCHANGED <<asLock, asReleases>>
    /\ status' = IF outcome = "success" THEN "SUCCESS" ELSE "FAILED"
    /\ pc' = "done"
    /\ UNCHANGED <<result, lastPct, asIn, asSubmits, tmVars, asOthers>>

\* another job of the queue ends, which frees its key
AS_OtherJobEnds(j) ==
    /\ InAuto /\ pc # "done"
    /\ NonTerminal(j)
    /\ jobs' = [jobs EXCEPT ![j].status = "SUCCESS"]
    /\ UNCHANGED <<jobVars, lastSubmit, asVars, asOthers>>

AutoNext ==
    \/ StartJob
    \/ AS_NoLimiter
    \/ AS_Begin
    \/ AS_Metadata
    \/ AS_Library
    \/ AS_SubmitLibrary
    \/ AS_SearchEmpty
    \/ AS_SearchFound
    \/ AS_SubmitBest
    \/ AS_Fault
    \/ AS_Finally
    \/ \E j \in DOMAIN jobs : AS_OtherJobEnds(j)

\* The queue holds no job or one import, running or ended, of one of the two
\* sources the task may choose.
AutoQueues ==
    {<<>>} \cup
    {<<[provider |-> p, mediaId |-> MediaKey(1),
        key |-> UniqueKey(p, MediaKey(1)), status |-> st]>> :
        p \in Providers, st \in {"RUNNING", "SUCCESS"}}
AutoInit ==
    /\ JobInitFor({"auto"})
    /\ pre = EmptyDb /\ rlCount = 0
    /\ jobs \in AutoQueues
    /\ lastSubmit = [seq |-> 0, key |-> None, result |-> "none"]
    /\ RLIdle /\ MIIdle /\ ROIdle /\ IDIdle /\ BKIdle
    /\ DAIdle /\ RangeIdle /\ CodecIdle /\ MGIdle /\ CJIdle /\ NoOther
    /\ asIn \in [limiter : BOOLEAN, apiKey : BOOLEAN, keyword : BOOLEAN,
                 lib : {"absent", "no_source", "source"}, src : Providers,
                 found : BOOLEAN, best : Providers]
    /\ asLock = asIn.apiKey
    /\ asReleases = 0
    /\ asSubmits = <<>>
SpecAuto == AutoInit /\ [][AutoNext]_vars

\* ------------------------------------ _migrate_add_source_order (SpecMigrate)
\* init_db_tables runs the migration inside `async with engine.begin()`: one
\* transaction, committed when the block is left, rolled back when it is left
\* by a fault or the process ends. On MySQL every ALTER TABLE commits the
\* open transaction and itself; on PostgreSQL DDL is part of the transaction.
mgOthers == <<jobVars, tmVars, rlgVars, miVars, roVars, idVars, bkVars, daVars,
              pureVars, asVars, cj, roOther, daPre, bs>>
ImplicitCommit(dialect) == dialect = "mysql"
\* what a DDL statement leaves committed
AfterDDL(tx) == IF ImplicitCommit(mgDialect) THEN tx ELSE mgDb

SourceIds == {r.id : r \in mgRows}
AnimeOf(id) == (CHOOSE r \in mgRows : r.id = id).anime
\* SELECT id FROM anime_sources WHERE anime_id = ... ORDER BY id; order = i + 1
\*                                                       (database.py:44-47)
RankOf(id) ==
    Cardinality({r \in mgRows : r.anime = AnimeOf(id) /\ r.id <= id})
\* the UPDATE statements in the order they are issued, work by work
BackfillBefore(a, b) ==
    \/ AnimeOf(a) < AnimeOf(b)
    \/ AnimeOf(a) = AnimeOf(b) /\ a < b
BackfillOrder ==
    CHOOSE s \in [1..Cardinality(SourceIds) -> SourceIds] :
        \A p, q \in DOMAIN s : p < q => BackfillBefore(s[p], s[q])

\* async with engine.begin() as conn: ... await _run_migrations(conn)
\*                                             (database.py:259-274, 14-30)
MG_Start ==
    /\ mgPc \in {"idle", "done"}
    /\ mgRuns < MaxRuns
    /\ mgRuns' = mgRuns + 1
    /\ mgTx' = mgDb
    /\ mgK' = 0
    /\ mgPc' = "check_col"
    /\ UNCHANGED <<mgDialect, mgRows, mgDb, mgOthers>>

\* column_exists = ...; if not column_exists:            (database.py:32-33)
MG_CheckColumn ==
    /\ mgPc = "check_col"
    /\ mgPc' = IF mgTx.col = "absent" THEN "add_col" ELSE "check_constraint"
    /\ UNCHANGED <<mgDialect, mgRows, mgDb, mgTx, mgK, mgRuns, mgOthers>>

\* ALTER TABLE anime_sources ADD COLUMN source_order INT NULL
\*                                                       (database.py:35)
MG_AddColumn ==
    /\ mgPc = "add_col"
    /\ mgTx' = [mgTx EXCEPT !.col = "nullable",
                            !.order = [id \in SourceIds |-> None]]
    /\ mgDb' = AfterDDL(mgTx')
    /\ mgPc' = "fill"
    /\ UNCHANGED <<mgDialect, mgRows, mgK, mgRuns, mgOthers>>

\* UPDATE anime_sources SET source_order = {order} WHERE id = {source_id}
\*                                                       (database.py:40-48)
MG_Fill ==
    /\ mgPc = "fill"
    /\ mgK < Cardinality(SourceIds)
    /\ mgTx' = [mgTx EXCEPT !.order[BackfillOrder[mgK + 1]] =
                                Some(RankOf(BackfillOrder[mgK + 1]))]
    /\ mgK' = mgK + 1
    /\ UNCHANGED <<mgDialect, mgRows, mgDb, mgPc, mgRuns, mgOthers>>

\* ALTER TABLE ... source_order ... NOT NULL             (database.py:51-58)
MG_NotNull ==
    /\ mgPc = "fill"
    /\ mgK = Cardinality(SourceIds)
    /\ mgTx' = [mgTx EXCEPT !.col = "notnull"]
    /\ mgDb' = AfterDDL(mgTx')
    /\ mgPc' = "check_constraint"
    /\ UNCHANGED <<mgDialect, mgRows, mgK, mgRuns, mgOthers>>

\* constraint_exists = ...; if not constraint_exists:    (database.py:62-70)
MG_CheckConstraint ==
    /\ mgPc = "check_constraint"
    /\ mgPc' = IF mgTx.uniq THEN "commit" ELSE "add_constraint"
    /\ UNCHANGED <<mgDialect, mgRows, mgDb, mgTx, mgK, mgRuns, mgOthers>>

\* ALTER TABLE anime_sources ADD CONSTRAINT idx_anime_source_order_unique
\* UNIQUE (anime_id, source_order): rows whose source_order is NULL never
\* collide under a UNIQUE constraint                     (database.py:71-76)
MG_AddConstraint ==
    /\ mgPc = "add_constraint"
    /\ mgTx' = [mgTx EXCEPT !.uniq = TRUE]
    /\ mgDb' = AfterDDL(mgTx')
    /\ mgPc' = "commit"
    /\ UNCHANGED <<mgDialect, mgRows, mgK, mgRuns, mgOthers>>

\* the engine.begin() block is left: commit              (database.py:264-273)
MG_Commit ==
    /\ mgPc = "commit"
    /\ mgDb' = mgTx
    /\ mgPc' = "done"
    /\ UNCHANGED <<mgDialect, mgRows, mgTx, mgK, mgRuns, mgOthers>>

\* the run is interrupted (the process ends, the connection is lost, a
\* statement raises): what was not committed is rolled back
MG_Interrupt ==
    /\ mgPc \notin {"idle", "done"}
    /\ mgTx' = mgDb
    /\ mgPc' = "idle"
    /\ UNCHANGED <<mgDialect, mgRows, mgDb, mgK, mgRuns, mgOthers>>

MigrateNext ==
    \/ MG_Start
    \/ MG_CheckColumn
    \/ MG_AddColumn
    \/ MG_Fill
    \/ MG_NotNull
    \/ MG_CheckConstraint
    \/ MG_AddConstraint
    \/ MG_Commit
    \/ MG_Interrupt

\* an installation of before the migration: no source_order column; up to
\* MaxSources sources spread over two works
SourceTables ==
    {{[id |-> n, anime |-> an[n]] : n \in S} :
        S \in SUBSET (1..MaxSources), an \in [1..MaxSources -> 1..2]}
MigrateInit ==
    /\ JobIdle /\ TMIdle /\ RLIdle /\ MIIdle /\ ROIdle /\ IDIdle /\ BKIdle
    /\ DAIdle /\ RangeIdle /\ CodecIdle /\ ASIdle /\ CJIdle /\ NoOther
    /\ mgDialect \in {"mysql", "postgresql"}
    /\ mgRows \in SourceTables
    /\ mgDb = NoColumn /\ mgTx = NoColumn
    /\ mgPc = "idle" /\ mgK = 0 /\ mgRuns = 0
SpecMigrate == MigrateInit /\ [][MigrateNext]_vars

\* ------------------------------- concurrent per-episode loops (SpecConc)
\* ConcJobs jobs run _process_episode_list against the same provider. Each
\* await is a point where another job may run, so a job's check, its fetch
\* and its increment are three steps; the limiter's own operations are
\* atomic (spec 4.2). rlCount/rlReset are the provider's budget and rlIncs
\* the increments recorded in the current window.
cjOthers == <<jobNoRl, tmVars, rl2, rlLast, miVars, roVars, idVars, bkVars, daVars,
              pureVars, asVars, mgVars, roOther, daPre, bs>>
At(j, p) == cj[j].pc = p
Goto(j, p) == [cj EXCEPT ![j].pc = p]
\* i += 1, then the loop's test                          (tasks.py:343, 305)
NextEpisode(j) ==
    [cj EXCEPT ![j].left = cj[j].left - 1,
               ![j].pc = IF cj[j].left > 1 THEN "check" ELSE "done"]

\* await rate_limiter.check(...) returns                      (tasks.py:313)
CJ_CheckPass(j) ==
    /\ At(j, "check")
    /\ ~RLCheckFails
    /\ RLCheckPass
    /\ cj' = Goto(j, "fetch")
    /\ UNCHANGED <<rlIncs, cjOthers>>

\* the check raises RateLimitExceededError: PAUSED, sleep    (tasks.py:321-324)
CJ_RateLimited(j) ==
    /\ At(j, "check")
    /\ RLCheckFails
    /\ cj' = [cj EXCEPT ![j].pc = "sleep", ![j].wait = rlReset]
    /\ UNCHANGED <<rl, rlIncs, cjOthers>>

\* the sleep is over: continue, the same episode again       (tasks.py:324-325)
CJ_Wake(j) ==
    /\ At(j, "sleep")
    /\ cj[j].wait = 0
    /\ cj' = Goto(j, "check")
    /\ UNCHANGED <<rl, rlIncs, cjOthers>>

\* await scraper.get_comments(...) returns n comments; `if comments:`
\*                                                     (tasks.py:320, 335)
CJ_Fetch(j, n) ==
    /\ At(j, "fetch")
    /\ cj' = IF n > 0 THEN Goto(j, "increment") ELSE NextEpisode(j)
    /\ UNCHANGED <<rl, rlIncs, cjOthers>>

\* await rate_limiter.increment(...), the writes, the commit  (tasks.py:336-341)
CJ_Increment(j) ==
    /\ At(j, "increment")
    /\ RLIncrement
    /\ rlIncs' = IF rlReset = 0 THEN 1 ELSE rlIncs + 1
    /\ cj' = NextEpisode(j)
    /\ UNCHANGED cjOthers

\* one tick of the clock
CJ_Tick ==
    /\ rlReset > 0
    /\ RLElapse(1)
    /\ rlIncs' = IF rlReset' = 0 THEN 0 ELSE rlIncs
    /\ cj' = [j \in DOMAIN cj |-> [cj[j] EXCEPT !.wait = Max(0, cj[j].wait - 1)]]
    /\ UNCHANGED cjOthers

ConcNext ==
    \/ \E j \in DOMAIN cj : CJ_CheckPass(j)
    \/ \E j \in DOMAIN cj : CJ_RateLimited(j)
    \/ \E j \in DOMAIN cj : CJ_Wake(j)
    \/ \E j \in DOMAIN cj, n \in 0..MaxComments : CJ_Fetch(j, n)
    \/ \E j \in DOMAIN cj : CJ_Increment(j)
    \/ CJ_Tick

ConcInit ==
    /\ JobIdle /\ TMIdle /\ RLIdle /\ MIIdle /\ ROIdle /\ IDIdle /\ BKIdle
    /\ DAIdle /\ RangeIdle /\ CodecIdle /\ ASIdle /\ MGIdle /\ NoOther
    /\ rlReset = 0
    /\ cj \in [1..ConcJobs -> [pc : {"check"}, left : 1..MaxEps, wait : {0}]]
SpecConc == ConcInit /\ [][ConcNext]_vars

\* ------------------------------------ tasks that fetch, scheduled fairly
\* The event loop keeps running a job whose next step is enabled: a provider
\* call returns, a sleep ends, and after the sleep of a rate-limit backoff
\* the window is over.
SpecFetchLive == FetchInit /\ [][FetchNext]_vars /\ WF_vars(FetchNext)
\* The per-episode loop on its own, run by edited_import_task on the
\* episodes of the request.
LoopLiveNext ==
    \/ StartJob
    \/ EditedNext
    \/ LoopNext
LoopLiveInit == FetchInit /\ kind = "edited" /\ pre = ExistingDb /\ ~imageUrl
SpecLoopLive == LoopLiveInit /\ [][LoopLiveNext]_vars /\ WF_vars(LoopLiveNext)

\* ------------------------------- delete_bulk_sources_task (SpecBulkSources)
\* The tables of SpecBulk read as sources: bkIds is sourceIds, a row is a
\* source with the stored path of its episode's track file, bkFiles the
\* sources whose episode has a file on disk.
InBulkSources == kind = "bulk_sources"
bsOthers == <<bkIdleJob, tmVars, rlgVars, miVars, roVars, idVars, daVars, pureVars,
              asVars, mgVars, cj, roOther, daPre, bkTries>>

\* delete_source_task(sourceId) without a fault: nothing for a missing
\* source; else _delete_danmaku_file for each episode path, then the source
\* row with its episodes                                   (tasks.py:236-254)
DeleteSourceTask(st, id) ==
    IF \E r \in st.rows : r.id = id
    THEN LET r == CHOOSE x \in st.rows : x.id = id
         IN  [rows |-> st.rows \ {r},
              files |-> IF Unlinks(r.path) THEN st.files \ {id} ELSE st.files]
    ELSE st
\* delete_source_task once for each id, in list order
RECURSIVE DeleteSourceEach(_, _, _)
DeleteSourceEach(st, ids, k) ==
    IF k > Len(ids) THEN st
    ELSE DeleteSourceEach(DeleteSourceTask(st, ids[k]), ids, k + 1)

\* progress = int((i / total) * 100); progress_callback   (tasks.py:646-648)
BS_Top ==
    /\ InBulkSources /\ pc = "bs_top" /\ i < Len(bkIds)
    /\ Report((i * 100) \div Len(bkIds), "none")
    /\ pc' = "bs_get"
    /\ UNCHANGED <<result, i, bkIds, bkRows, bkSess, bkFiles, bkCount, bs, bsOthers>>

\* source = await session.get(...); if source: is false    (tasks.py:650-651)
BS_Missing ==
    /\ InBulkSources /\ pc = "bs_get"
    /\ ~bs.broken
    /\ ~\E r \in bkSess : r.id = bkIds[i + 1]
    /\ i' = i + 1
    /\ pc' = "bs_top"
    /\ UNCHANGED <<status, result, lastPct, bkIds, bkRows, bkSess, bkFiles,
                   bkCount, bs, bsOthers>>

\* await session.delete(source): the source and, by cascade, its episodes;
\* no track file is touched                              (tasks.py:651-652)
BS_Delete ==
    /\ InBulkSources /\ pc = "bs_get"
    /\ ~bs.broken
    /\ \E r \in bkSess : r.id = bkIds[i + 1]
    /\ bkSess' = bkSess \ {BulkRow(bkIds[i + 1])}
    /\ pc' = "bs_commit"
    /\ UNCHANGED <<status, result, lastPct, i, bkIds, bkRows, bkFiles, bkCount,
                   bs, bsOthers>>

\* await session.commit(); deleted_count += 1             (tasks.py:653-654)
BS_Commit ==
    /\ InBulkSources /\ pc = "bs_commit"
    /\ bkRows' = bkSess
    /\ bkCount' = bkCount + 1
    /\ i' = i + 1
    /\ pc' = "bs_top"
    /\ UNCHANGED <<status, result, lastPct, bkIds, bkSess, bkFiles, bs, bsOthers>>

\* except Exception: logged, on to the next source. The handler does not
\* call session.rollback(): after a fault of the flush inside commit the
\* session refuses every further use until it is rolled back (br), after
\* another fault it can be used again                      (tasks.py:655-657)
BS_Fault(br) ==
    /\ InBulkSources /\ pc \in {"bs_get", "bs_commit"}
    /\ pc = "bs_get" => br = bs.broken
    /\ bkSess' = bkRows
    /\ bs' = [bs EXCEPT !.faults = 1, !.broken = br]
    /\ i' = i + 1
    /\ pc' = "bs_top"
    /\ UNCHANGED <<status, result, lastPct, bkIds, bkRows, bkFiles, bkCount,
                   bsOthers>>

\* await session.commit(); raise TaskSuccess(...)          (tasks.py:658-659)
BS_Finish ==
    /\ InBulkSources /\ pc = "bs_top" /\ i = Len(bkIds)
    /\ IF bs.broken
       THEN RaiseFault(Msg("PendingRollbackError"))
       ELSE RaiseTaskSuccess([Msg("bulk_sources_deleted") EXCEPT !.added = bkCount])
    /\ UNCHANGED <<lastPct, i, bkIds, bkRows, bkSess, bkFiles, bkCount, bs, bsOthers>>

BulkSourcesNext ==
    \/ StartJob
    \/ BS_Top
    \/ BS_Missing
    \/ BS_Delete
    \/ BS_Commit
    \/ \E br \in BOOLEAN : BS_Fault(br)
    \/ BS_Finish

BulkSourcesInit ==
    /\ JobInitFor({"bulk_sources"})
    /\ pre = EmptyDb /\ rlCount = 0
    /\ TMIdle /\ RLIdle /\ MIIdle /\ ROIdle /\ IDIdle
    /\ DAIdle /\ RangeIdle /\ CodecIdle /\ ASIdle /\ MGIdle /\ CJIdle
    /\ roOther = {} /\ daPre = [row |-> FALSE, dir |-> "none"]
    /\ bkIds \in BulkIdLists
    /\ bkRows \in BulkTables
    /\ bkSess = bkRows
    /\ bkFiles = {r.id : r \in {x \in bkRows : x.path # "none"}}
    /\ bkCount = 0 /\ bkTries = 0
    /\ bs = [pre |-> [rows |-> bkRows, files |-> bkFiles], faults |-> 0,
             broken |-> FALSE]
SpecBulkSources == BulkSourcesInit /\ [][BulkSourcesNext]_vars

\* ================================================================ claims

\* C1: a submission with a unique key is rejected as a duplicate exactly when
\* a non-terminal job holds that key (so it is rejected while the earlier job
\* is PENDING, RUNNING or PAUSED and accepted once that job is SUCCESS or
\* FAILED); no two non-terminal jobs ever share a unique key, and hence no
\* two non-terminal imports are of the same provider and media id.
C1_NoSharedKey ==
    \A a, b \in DOMAIN jobs :
        (a # b /\ NonTerminal(a) /\ NonTerminal(b)) =>
            /\ ~(jobs[a].key # None /\ jobs[a].key = jobs[b].key)
            /\ ~(jobs[a].provider = jobs[b].provider /\ jobs[a].mediaId = jobs[b].mediaId)
C1_RejectedIffHeld ==
    lastSubmit' # lastSubmit =>
        (lastSubmit'.result = "duplicate" <=> KeyHeld(lastSubmit'.key))
\* C1: no two non-terminal jobs share a unique key, and every submission is
\* rejected as a duplicate exactly when a non-terminal job holds its key.
C1_UniqueKeyDedup == [](C1_NoSharedKey) /\ [][C1_RejectedIffHeld]_vars
\* a key is reused after its first job ended, and a further submission of it
\* has just been rejected
C1_Witness ==
    /\ lastSubmit.result = "duplicate"
    /\ \E a, b \in DOMAIN jobs :
        /\ a < b
        /\ jobs[a].key = jobs[b].key /\ jobs[b].key = lastSubmit.key
        /\ jobs[a].status \in Terminal
        /\ jobs[b].status = "RUNNING"

\* C2: the job's status moves only PENDING->RUNNING, RUNNING->PAUSED,
\* PAUSED->RUNNING, RUNNING->SUCCESS and RUNNING->FAILED, and a job that is
\* SUCCESS or FAILED keeps its record (status, percent, message) for good.
AllowedStep ==
    {<<"PENDING", "RUNNING">>, <<"RUNNING", "PAUSED">>, <<"PAUSED", "RUNNING">>,
     <<"RUNNING", "SUCCESS">>, <<"RUNNING", "FAILED">>}
C2_Step ==
    /\ status' # status => <<status, status'>> \in AllowedStep
    /\ status \in Terminal => UNCHANGED <<status, lastPct, outcome, msg>>
\* C2: every step of a job's status is one of the allowed moves, and a
\* terminal job's record never changes.
C2_Lifecycle == [][C2_Step]_vars
\* a job that was paused by the rate limiter has ended
C2_Witness == InLoop /\ wait > 0 /\ status = "SUCCESS"

\* C3: no task function returns normally: it ends by TaskSuccess or a fault.
C3_TasksNeverReturn == outcome # "returned"

\* C4: a rate-limit signal for episode i is answered by a PAUSED report, a
\* sleep of the signalled duration and a new attempt of the same episode: the
\* loop index, the failed count and the comment total are as before.
C4_Step ==
    /\ (InLoop /\ pc = "pel_check" /\ RLCheckFails) =>
          (pc' = "pel_paused" /\ wait' = rlReset /\ wait' > 0 /\ UNCHANGED <<loop, episodes>>)
    /\ (InLoop /\ pc = "pel_paused") =>
          (pc' = "pel_sleep" /\ status' = "PAUSED" /\ UNCHANGED <<loop, episodes, wait>>)
    /\ (InLoop /\ pc = "pel_sleep") =>
          (pc' = "pel_top" /\ rlReset' = Max(0, rlReset - wait)
           /\ UNCHANGED <<loop, episodes>>)
\* C4: every step of a rate-limit backoff keeps the loop index, the failed
\* count and the comment total, and leads back to the same episode.
C4_RateLimitRetriesSameEpisode == [][C4_Step]_vars
\* the second episode is being fetched after the job waited out a backoff
C4_Witness == InLoop /\ pc = "pel_fetch" /\ i = 1 /\ wait > 0 /\ failedCnt = 0

\* C5: a fetch that raises a fault other than the rate-limit signal is counted
\* as failed once and skipped; the job goes on.
C5_FaultCountedAndSkipped ==
    (InLoop /\ fetchFaults > 0) => (failedCnt = fetchFaults /\ outcome # "fault")

\* C6: an import job with a non-empty episode list ends with TaskSuccess,
\* whose message carries the number of failed episodes.
C6_NonEmptyImportSucceeds ==
    (kind \in {"generic", "edited"} /\ pc = "done" /\ episodes # <<>>) =>
        (outcome = "success" /\ msg.failed = failedCnt /\ msg.added = added)

\* C7 (as amended): generic_import_task attempts the failover exactly once
\* when the episode list is empty after the forced target filter, and never
\* otherwise; a failover that yields nothing fails the job with a message that
\* names the requested index if there is one, and no row has been created.
FailoverMissed == failoverCalls = 1 /\ comments = 0 /\ pc = "done"
C7_MissFailsCleanly ==
    FailoverMissed =>
        /\ outcome = "fault"
        /\ IF target # None
           THEN msg.id = "episode_not_found" /\ msg.index = target
           ELSE msg.id = "no_episodes"
        /\ sess = pre /\ disk = pre
\* C7 (as amended): one failover exactly when the filtered list is empty, and
\* a failover that yields nothing fails the job cleanly.
C7_FailoverOnce ==
    InGeneric =>
        /\ failoverCalls <= 1
        /\ failoverCalls = 1 => (rawLen # None /\ episodes = <<>>)
        /\ (pc = "done" /\ rawLen # None /\ episodes = <<>>) => failoverCalls = 1
        /\ C7_MissFailsCleanly
\* the provider listed episodes, none with the requested index; the failover
\* found nothing
C7_Witness ==
    /\ InGeneric /\ FailoverMissed
    /\ rawLen \notin {None, Some(0)}
    /\ msg.id = "episode_not_found"
\* C7 as first stated: the failover is attempted when the provider's listing is
\* empty and not when it is non-empty.
C7_Original ==
    InGeneric =>
        /\ (pc = "done" /\ rawLen = Some(0)) => failoverCalls = 1
        /\ rawLen \notin {None, Some(0)} => failoverCalls = 0
        /\ C7_MissFailsCleanly

\* C8: a failover that returns comments persists exactly one episode, with
\* provider episode id "failover" and the requested 1-based index, commits
\* its comments and ends with TaskSuccess.
FailoverReturnedComments == InGeneric /\ failoverCalls = 1 /\ comments > 0
\* C8: after a failover that returned comments the job has succeeded and the
\* one new episode carries the requested index and the id "failover".
C8_FailoverEpisodePersisted ==
    (FailoverReturnedComments /\ pc = "done") =>
        /\ outcome = "success"
        /\ target \in {Some(n) : n \in EpIdx}
        /\ disk.eps \ pre.eps =
              {[episodeIndex |-> target, providerEpisodeId |-> "failover",
                commentCount |-> comments]}

\* C9: with a target index every episode handed to the loop has that index;
\* for a movie the loop is handed exactly one episode.
InLoopPc == pc \in {"pel_top", "pel_check", "pel_paused", "pel_sleep", "pel_fetch", "pel_persist"}
\* C9: in the loop of generic_import_task all episodes have the target index,
\* and a movie has exactly one episode.
C9_LoopInput ==
    (InGeneric /\ InLoopPc) =>
        /\ target # None =>
              \A k \in 1..Len(episodes) : Some(episodes[k].episodeIndex) = target
        /\ mediaType = "movie" => Len(episodes) = 1
\* the provider listed more than the loop was given
C9_Witness ==
    /\ InGeneric /\ pc = "pel_fetch"
    /\ target # None
    /\ rawLen = Some(MaxEps) /\ Len(episodes) < MaxEps

\* C10: the percents a job reports never decrease and stay within 0..100.
C10_Step ==
    kind \in {"generic", "incremental", "full_refresh"} =>
        (lastPct' >= lastPct /\ lastPct' \in 0..100)
\* C10: every step leaves the reported percent non-decreasing and in 0..100.
C10_ProgressMonotone == [][C10_Step]_vars

\* C11: a full refresh never deletes an episode row (a row stands for its
\* track file too: the count is that of the comments written to the file),
\* and one that ends with a fault or without episodes leaves the committed
\* source, its media id and its episodes as they were before the job.
C11_FailedRefreshKeepsData ==
    kind = "full_refresh" =>
        /\ \A e \in pre.eps : \E d \in disk.eps :
              /\ d.episodeIndex = e.episodeIndex
              /\ d.providerEpisodeId = e.providerEpisodeId
        /\ (pc = "done" /\ (outcome = "fault" \/ episodes = <<>>)) => disk = pre

\* C12: a check fails exactly when the provider's window has recorded `limit`
\* increments, and then carries a positive retry_after; with fewer increments
\* it passes; after the window rolled over it passes and the count is zero.
C12_Step ==
    rlLast' # rlLast =>
        LET p == rlLast'.provider
            incs == IF p = 1 THEN rlIncs ELSE rl2.incs
            countAfter == IF p = 1 THEN rlCount' ELSE rl2'.count
        IN  /\ rlLast'.res = "limited" <=> incs >= RateLimit
            /\ rlLast'.res = "limited" => rlLast'.retry > 0
            /\ incs = 0 => (rlLast'.res = "ok" /\ countAfter = 0)
            /\ rlLast'.res = "ok" => countAfter = incs
\* C12: every check of either provider ends as its window's increments say.
C12_LimitReached == [][C12_Step]_vars
\* the first provider is refused after exactly `limit` increments while the
\* second, with a fresh window, is not
C12_Witness ==
    /\ rlLast.provider = 1 /\ rlLast.res = "limited"
    /\ rlIncs = RateLimit
    /\ rl2.incs = 0 /\ rl2.count = 0

\* C13: a provider fetch starts only from a check that passed; the limiter's
\* count grows only in the step that takes a non-empty fetch result, once,
\* and never for a rate-limited, faulted or empty fetch.
CheckPcs == {"pel_check", "re_info", "mi_check", "bi_check"}
FetchPcs == {"pel_fetch", "re_fetch", "mi_fetch", "bi_fetch"}
PersistPcs == {"pel_persist", "bi_persist"}
Incremented == rlCount' = rlCount + 1 \/ rlReset' > rlReset
C13_Step ==
    /\ (pc' \in FetchPcs /\ pc \notin FetchPcs) => (pc \in CheckPcs /\ ~RLCheckFails)
    /\ Incremented =>
          /\ comments' > 0 /\ fetchFaults' = fetchFaults
          /\ pc \in PersistPcs \cup {"re_fetch", "mi_fetch"}
          /\ rlCount' \in {1, rlCount + 1}
    /\ pc \in PersistPcs => Incremented
    /\ (pc \in FetchPcs /\ pc' \notin FetchPcs /\ comments' > 0
            /\ fetchFaults' = fetchFaults) =>
          (Incremented \/ pc' \in PersistPcs)
\* C13: every step of a fetching task keeps check, fetch and increment in
\* that order, with one increment for each non-empty fetch.
C13_CheckThenIncrement == [][C13_Step]_vars
\* a batch import has recorded the fetch of an item after waiting out a
\* backoff, and an earlier item had failed
C13_Witness ==
    /\ kind = "batch" /\ ~custom /\ pc = "bi_commit"
    /\ comments > 0 /\ wait > 0 /\ failedCnt > 0

\* ---------------------------------------------------------------- C14
RoSucceeded == InReorder /\ pc = "done" /\ outcome = "success"
RoFaulted == InReorder /\ pc = "done" /\ outcome = "fault"
\* C14: after reorder_episodes_task ends with success on a source that had
\* N >= 1 episodes, the source has exactly N episodes, the k-th episode of the
\* former (index, id) order has index k and the identity that encodes
\* (animeId, sourceOrder, k), and keeps its descriptive fields.
C14_ReorderResult ==
    (RoSucceeded /\ roPre.rows # {}) =>
        LET N == Cardinality(roPre.rows)
            old == SortedRows(roPre.rows)
        IN  /\ Cardinality(roRows) = N
            /\ \A k \in 1..N :
                 \E r \in roRows :
                    /\ r.episodeIndex = k
                    /\ r.id = NewId(AnimeId, SourceOrder, k)
                    /\ r.tag = old[k].tag
C14_Witness ==
    /\ RoSucceeded /\ msg.id = "reorder_done" /\ roRun = 1
    /\ Cardinality(roPre.rows) = MaxRows
    /\ SourceOrder = 2
    /\ \A r \in roPre.rows : r \notin roRows

\* ---------------------------------------------------------------- C15
\* every episode of the set has the identity and the index of its position
AllCorrect(rows) ==
    LET old == SortedRows(rows)
    IN  \A k \in 1..Cardinality(rows) :
           old[k].id = NewId(AnimeId, SourceOrder, k) /\ old[k].episodeIndex = k
\* C15: a run of reorder_episodes_task right after a successful one, or on a
\* source whose episodes are all correct already, changes no row and no file,
\* stages nothing and, unless a database statement fails, ends with a success
\* that migrated nothing; an episode whose identity and index are correct is
\* never staged for deletion and stays in the table.
C15_Idempotent ==
    /\ (InReorder /\ (roRun = 2 \/ AllCorrect(roPre.rows))) =>
          /\ roRows = roPre.rows /\ roFiles = roPre.files
          /\ roDel = {} /\ roAdd = {}
          /\ (pc = "done" /\ outcome # "fault") =>
                /\ outcome = "success"
                /\ msg.id \in {"reorder_noop", "reorder_no_episodes"}
                /\ msg.added = 0
    /\ InReorder =>
          LET old == SortedRows(roPre.rows)
          IN  \A k \in 1..Cardinality(roPre.rows) :
                 (old[k].id = NewId(AnimeId, SourceOrder, k) /\ old[k].episodeIndex = k) =>
                    old[k] \notin roDel /\ old[k] \in roRows
C15_Witness ==
    /\ RoSucceeded /\ roRun = 2 /\ msg.id = "reorder_noop"
    /\ Cardinality(roRows) = MaxRows
    /\ \E r \in roRows : r.path # None

\* ---------------------------------------------------------------- C16
\* C16: on every exit path of reorder_episodes_task, referential-integrity
\* checking that was disabled on the session is enabled again when the task
\* has ended.
C16_ChecksRestored == (InReorder /\ pc = "done") => roFk

\* ---------------------------------------------------------------- C17
\* C17: if reorder_episodes_task ends with a fault, the source's episode rows
\* and the location and content of its track files are as they were before
\* the task started.
C17_AllOrNothing ==
    RoFaulted => roRows = roPre.rows /\ roFiles = roPre.files

\* ---------------------------------------------------------------- C18
\* C18: after a successful reorder, for every episode that owned a track file
\* and whose identity changed, the file with the episode's original content is
\* at the path of the new identity and the new row's stored path names it; no
\* content that was on disk before is missing afterwards.
C18_FilesFollowRows ==
    (RoSucceeded /\ roRun = 1) =>
        LET old == SortedRows(roPre.rows)
        IN  /\ \A k \in 1..Cardinality(roPre.rows) :
                 LET id == NewId(AnimeId, SourceOrder, k)
                 IN  (old[k].path # None /\ old[k].id # id) =>
                        /\ [at |-> id, content |-> old[k].tag] \in roFiles
                        /\ \E r \in roRows : r.id = id /\ r.path = DataPath(id)
            /\ \A f \in roPre.files : \E g \in roFiles : g.content = f.content

\* ---------------------------------------------------------------- C19
\* C19: the identity is a function of (animeId, sourceOrder, episodeIndex)
\* that gives two distinct triples two distinct identities.
C19_IdentityInjective ==
    (idOut # <<>> /\ idArgs[1] # idArgs[2]) => idOut[1] # idOut[2]

\* ---------------------------------------------------------------- C20
\* C20: a bulk episode delete that ends because an item hit a lock-contention
\* fault has attempted that item's deletion more than once.
C20_LockFaultRetried ==
    (InBulk /\ pc = "done" /\ outcome = "fault" /\ msg.id = "lock_timeout"
        /\ bkTries > 0) => bkTries >= 2

\* ---------------------------------------------------------------- C21
BulkFaulted == InBulk /\ pc = "done" /\ outcome = "fault"
BulkBefore(k) == {bkIds[p] : p \in 1..k}
\* the part of C21 about committed items: at every moment the rows of the
\* items before the current one are deleted in the committed table, and at
\* most the current item's deletion is uncommitted
BulkCommittedStay ==
    InBulk =>
        /\ \A r \in bkRows : r.id \notin BulkBefore(i)
        /\ bkSess \subseteq bkRows
        /\ \A r \in bkRows \ bkSess : i < Len(bkIds) /\ r.id = bkIds[i + 1]
\* C21: when item k of a bulk episode delete faults, the episodes of the items
\* before k remain deleted, rows and files, and item k's own work is undone:
\* its row is in the table again and its track file is where it was.
C21_BulkPartial ==
    BulkFaulted =>
        /\ \A r \in bkRows : r.id \notin BulkBefore(i)
        /\ \A id \in BulkBefore(i) : id \notin bkFiles
        /\ bkSess = bkRows
        /\ \A r \in bkRows : (r.id = bkIds[i + 1] /\ r.path # "none") => r.id \in bkFiles

\* ---------------------------------------------------------------- C22
\* C22: delete_anime_task makes at most 3 attempts; a lock-wait-timeout on
\* attempt 1 or 2 rolls back, waits 2 and then 4 seconds and starts the next
\* attempt; a lock-wait-timeout on the third attempt, or any other fault on any
\* attempt, ends the job as a failure at once.
C22_Step ==
    InDeleteAnime =>
        \* a retry follows a lock-wait-timeout before the third attempt only,
        \* and rolls back
        /\ (pc' = "da_sleep" /\ pc # "da_sleep") =>
              /\ daAttempt < 2 /\ daSess' = daRow /\ status' = "RUNNING"
        \* the wait is 2 after the first attempt and 4 after the second
        /\ (pc = "da_sleep" /\ pc' = "da_begin") =>
              /\ daAttempt' = daAttempt + 1
              /\ daWaits' = Append(daWaits, IF daAttempt = 0 THEN 2 ELSE 4)
        \* attempts start nowhere else
        /\ (pc' = "da_begin" /\ pc # "da_begin") => pc \in {"pending", "da_sleep"}
        \* a fault ends the job FAILED with the session rolled back
        /\ (outcome' = "fault" /\ outcome # "fault") =>
              /\ status' = "FAILED" /\ pc' = "done" /\ daSess' = daRow
              /\ msg'.id = "lock_timeout" => daAttempt = 2
C22_Bounded ==
    InDeleteAnime =>
        /\ daAttempt <= 2
        /\ Len(daWaits) = daAttempt
        /\ \A k \in 1..Len(daWaits) : daWaits[k] = (IF k = 1 THEN 2 ELSE 4)
        /\ (pc = "done" /\ outcome = "fault" /\ msg.id # "lock_timeout") =>
              status = "FAILED"
TargetNotFound ==
    \/ kind \in {"full_refresh", "incremental"} /\ ~pre.source
    \/ kind = "refresh_episode" /\ pre.eps = {}
\* C23: a job asked to operate on a source or episode that is not in the
\* catalog ends FAILED and is not reported as a success.
C23_NotFoundFails ==
    (TargetNotFound /\ pc = "done") => (status = "FAILED" /\ outcome # "success")

\* ---------------------------------------------------------------- C24
\* the job is at a call of rate_limiter.check that raises the rate-limit signal
RateLimitSignal ==
    /\ pc \in CheckPcs /\ RLCheckFails
    /\ pc = "re_info" => sess.eps # {}
C24_Step == RateLimitSignal => status' \notin Terminal
\* C24: in every task that consults the rate limiter, the step that receives a
\* rate-limit signal does not take the job to a terminal status.
C24_RateLimitRecovered == [][C24_Step]_vars

\* ---------------------------------------------------------------- C25
C25_Step ==
    kind = "batch" =>
        /\ (pc = "bi_check" /\ RLCheckFails) =>
              /\ pc' = "bi_paused" /\ wait' = rlReset /\ wait' > 0
              /\ UNCHANGED <<loop, items, db>>
        /\ pc = "bi_paused" =>
              /\ pc' = "bi_sleep" /\ status' = "PAUSED"
              /\ UNCHANGED <<loop, items, db, wait>>
        /\ pc = "bi_sleep" =>
              /\ pc' = "bi_top" /\ rlReset' = Max(0, rlReset - wait)
              /\ UNCHANGED <<loop, items, db>>
        \* no item is skipped and none is gone back to
        /\ i' \in {i, i + 1}
        \* what is committed stays committed
        /\ \A e \in disk.eps : \E f \in disk'.eps : f.episodeIndex = e.episodeIndex
\* C25: in batch_manual_import_task a rate-limit signal on item i reports
\* PAUSED, sleeps for the carried duration and goes back to item i: the index,
\* the failed count, the total and the committed rows are unchanged by the
\* three steps, and the index only ever moves forward by one.
C25_BatchRateLimit == [][C25_Step]_vars
\* the second item is paused after the first was committed
C25_Witness ==
    /\ kind = "batch" /\ pc = "bi_sleep" /\ status = "PAUSED"
    /\ i = 1 /\ failedCnt = 0 /\ added > 0
    /\ disk # pre

\* ---------------------------------------------------------------- C26
RangeTokens == rgOut[1]
RangeInputSet == {rgIn[k] : k \in 1..Len(rgIn)}
\* the indices of the tokens, token by token
RECURSIVE RangeExpand(_)
RangeExpand(toks) ==
    IF toks = <<>> THEN <<>>
    ELSE [n \in 1..(Head(toks).hi - Head(toks).lo + 1) |-> Head(toks).lo + n - 1]
         \o RangeExpand(Tail(toks))
\* C26: for a non-empty list of episode indices the range string denotes
\* exactly the set of the indices, each covered by one token; the tokens
\* ascend; consecutive indices are in one "a-b" token and an isolated index is
\* a literal number; parsing the string and compressing again gives the string.
C26_RangeString ==
    (rgOut # None /\ rgIn # <<>>) =>
        /\ \A n \in RangeInputSet :
              Cardinality({k \in 1..Len(RangeTokens) :
                              RangeTokens[k].lo <= n /\ n <= RangeTokens[k].hi}) = 1
        /\ \A k \in 1..Len(RangeTokens) :
              /\ \A n \in RangeTokens[k].lo..RangeTokens[k].hi : n \in RangeInputSet
              /\ RangeTokens[k].kind = "single" <=> RangeTokens[k].lo = RangeTokens[k].hi
              /\ RangeTokens[k].kind = "range" <=> RangeTokens[k].lo < RangeTokens[k].hi
        /\ \A k \in 1..(Len(RangeTokens) - 1) :
              RangeTokens[k].hi + 1 < RangeTokens[k + 1].lo
        /\ GenerateEpisodeRangeString(RangeExpand(RangeTokens)) = RangeTokens
\* a list with a duplicate, out of order, that has a run and an isolated index
C26_Witness ==
    /\ rgOut # None
    /\ Len(rgIn) = MaxRangeLen /\ rgIn[1] > rgIn[2]
    /\ Cardinality(RangeInputSet) < Len(rgIn)
    /\ Len(RangeTokens) = 1 /\ RangeTokens[1].kind = "range"

\* ---------------------------------------------------------------- C27
\* (time, mode, size, color, text) of a comment with at least four parts; a
\* comment with three core parts is read with the default size 25
CodecTuple(c) == <<SubSeq(WithDefaultSize(c.p), 1, Min(4, Len(WithDefaultSize(c.p)))), c.m>>
\* C27: parsing the generated document gives as many comments as were
\* generated, in the same order, with the same (time, mode, size, color, text),
\* a comment with 3 core fields coming back with the size 25.
C27_RoundTrip ==
    (cdOut # <<>> /\ cdOut.parsed # None) =>
        LET back == cdOut.parsed[1]
        IN  /\ Len(back) = Len(cdIn)
            /\ \A k \in 1..Len(cdIn) :
                  <<SubSeq(back[k].p, 1, Min(4, Len(back[k].p))), back[k].m>>
                     = CodecTuple(cdIn[k])

\* ---------------------------------------------------------------- C28
C28_State ==
    InLoop =>
        \* a fetch begins with nothing uncommitted
        /\ pc \in {"pel_check", "pel_fetch"} => sess.eps = disk.eps
        \* at most one episode's writes are uncommitted
        /\ Cardinality(sess.eps \ disk.eps) <= 1
C28_Step ==
    (InLoop /\ InLoopPc) =>
        \* the loop goes through the list one position at a time
        /\ i' \in {i, i + 1}
        \* episode rows are committed by the step that persists position i + 1
        /\ disk'.eps # disk.eps =>
              /\ pc = "pel_persist" /\ i' = i + 1
              /\ disk'.eps = UpsertEpisode(disk, Some(episodes[i + 1].episodeIndex),
                                           episodes[i + 1].episodeId, comments).eps
        \* what is committed stays committed, whatever the step
        /\ \A e \in disk.eps : \E f \in disk'.eps : f.episodeIndex = e.episodeIndex
\* C28: the per-episode loop is sequential and commits in list order: a fetch
\* begins with nothing uncommitted, at most one episode is uncommitted at any
\* moment, rows are committed only for the current position, and a committed
\* episode stays committed when the job fails later.
C28_SequentialCommit == [](C28_State) /\ [][C28_Step]_vars
\* the job failed at the second episode after the first was committed
C28_Witness ==
    /\ InLoop /\ pc = "done" /\ outcome = "fault" /\ i = 1 /\ added > 0
    /\ disk.eps # pre.eps

\* ---------------------------------------------------------------- C29
\* C29: in full_refresh_task no episode row or track file is created or
\* overwritten while an episode of the new list is still to be fetched.
C29_FetchAllThenWrite ==
    (kind = "full_refresh" /\ pc \in {"pel_check", "pel_fetch"}) =>
        (sess.eps = pre.eps /\ disk.eps = pre.eps)

\* ---------------------------------------------------------------- C30
\* the job committed a Work or a Source row that was not there before it
CreatedEntry == (disk.anime /\ ~pre.anime) \/ (disk.source /\ ~pre.source)
BackoffPcs == {"pel_sleep", "bi_sleep"}
ResumePcs == {"pel_top", "bi_top"}
C31_State ==
    /\ status = "PAUSED" => pc \in BackoffPcs \cup ResumePcs
    /\ pc \in FetchPcs => status = "RUNNING"
C31_Step ==
    \* PAUSED is reported right before the sleep, whose length is the
    \* limiter's retry_after
    /\ (status' = "PAUSED" /\ status # "PAUSED") =>
          /\ pc' \in BackoffPcs
          /\ wait' = wait /\ wait = rlReset
    /\ pc \in BackoffPcs => rlReset' = Max(0, rlReset - wait)
    \* a paused job is running again before it ends and before it fetches
    /\ status = "PAUSED" =>
          /\ status' \notin Terminal
          /\ pc' \notin FetchPcs
          /\ pc \in ResumePcs => status' = "RUNNING"
\* C31: a job is PAUSED only in a rate-limit backoff: PAUSED is reported only
\* right before the sleep of retry_after, and the status is RUNNING again
\* before the next provider fetch starts and before a terminal status.
C31_PausedOnlyInBackoff == [](C31_State) /\ [][C31_Step]_vars
\* a fetch runs after the job has waited out a backoff
C31_Witness ==
    /\ pc \in FetchPcs /\ status = "RUNNING" /\ wait > 0
    /\ kind \in {"edited", "batch"}

\* ---------------------------------------------------------------- C32
AutoWithKey == kind = "auto" /\ asIn.apiKey
AutoChosen == {UniqueKey(asIn.src, MediaKey(1)), UniqueKey(asIn.best, MediaKey(1))}
C32_State ==
    AutoWithKey =>
        \* the lock is held until the task's last step and given back once
        /\ pc # "done" => (asLock /\ asReleases = 0)
        /\ pc = "done" => (~asLock /\ asReleases = 1)
        \* at most one import, under the key of the chosen source
        /\ Len(asSubmits) <= 1
        /\ \A n \in DOMAIN asSubmits :
              /\ asSubmits[n] \in AutoChosen
              /\ \E j \in DOMAIN jobs : jobs[j].key = asSubmits[n]
        /\ status = "FAILED" => asSubmits = <<>>
        /\ (pc = "done" /\ outcome # "success") => status = "FAILED"
C32_Step ==
    AutoWithKey =>
        /\ Len(jobs') > Len(jobs) =>
              /\ asSubmits' = Append(asSubmits, jobs'[Len(jobs')].key)
              /\ jobs'[Len(jobs')].key =
                    UniqueKey(jobs'[Len(jobs')].provider, jobs'[Len(jobs')].mediaId)
              /\ outcome' = "success"
        /\ Len(jobs') = Len(jobs) => asSubmits' = asSubmits
\* C32: started with an api_key, auto_search_and_import_task releases the
\* key's search lock exactly once on every exit path, submits at most one
\* import job, keyed import-{provider}-{mediaId}, and none when it fails.
C32_LockReleasedOnce == [](C32_State) /\ [][C32_Step]_vars
\* the task ended in failure on a duplicate submission and gave the lock back
C32_Witness ==
    /\ AutoWithKey /\ pc = "done" /\ status = "FAILED"
    /\ msg.id = "duplicate" /\ lastSubmit.result = "duplicate"
    /\ asReleases = 1 /\ ~asLock

\* ---------------------------------------------------------------- C33
Migrated ==
    /\ mgDb.col # "absent"
    /\ \A id \in SourceIds : mgDb.order[id] = Some(RankOf(id))
    /\ mgDb.uniq
\* C33: after a run of _migrate_add_source_order has completed, also a re-run
\* after an interrupted run, every anime_sources row has a non-null
\* source_order equal to the rank of its id among the sources of its anime
\* and (anime_id, source_order) is unique.
C33_MigrationComplete == mgPc = "done" => Migrated

\* ---------------------------------------------------------------- C34
\* C34: with several jobs running against one provider, the calls recorded
\* by increment within one window never exceed the provider's limit.
C34_WindowWithinLimit == rlIncs <= RateLimit

\* ---------------------------------------------------------------- C35
\* with a provider other than 'custom' the loop does come to its end
BatchUrlTerminates ==
    (kind = "batch" /\ ~custom) =>
        <>(pc = "done" /\ status = "SUCCESS" /\ i = Len(items))
\* C35: batch_manual_import_task terminates for every item list: every item
\* is passed once, also one whose content yields no comments, and the job
\* then signals success.
C35_BatchTerminates ==
    kind = "batch" => <>(pc = "done" /\ status = "SUCCESS" /\ i = Len(items))

\* ---------------------------------------------------------------- C36
\* every stored path of the table is one the import pipeline wrote
ImportWritten(rows) == \A r \in rows : r.path # None => r.path[1].root = "web"
\* the delete tasks' rule and reorder's rule both lead from the stored path
\* to the episode's file
ResolvesToFile(r) ==
    /\ Unlinks(r.path[1].root)
    /\ ~RelativeToDataFails(r.path)
    /\ FileAt(r.path[1].id) # {}
\* C36: after imports and a reorder, every stored track-file path has one
\* format and resolves, under the rule of the delete tasks and under the
\* rule of reorder, to the file written for the episode.
C36_OnePathFormat ==
    (InReorder /\ pc = "done" /\ ImportWritten(roPre.rows)) =>
        \A r \in roRows : r.path # None => ResolvesToFile(r)

\* ---------------------------------------------------------------- C37
\* C37: reorder_episodes_task on a source, whether it succeeds or fails,
\* changes no episode row and no track file of another source, also when
\* another source holds identities encoded with the order that the source
\* now has.
C37_OtherSourcesUntouched ==
    InReorder => \A o \in roOther : [at |-> o.id, content |-> o.content] \in roFiles

\* ---------------------------------------------------------------- C38
\* C38: delete_anime_task on a work of the catalog: if it ends in failure the
\* work's rows are still there and so is its track-file directory; if it
\* ends in success both are gone.
C38_DeleteAllOrNothing ==
    (InDeleteAnime /\ pc = "done" /\ daPre.row) =>
        /\ status = "FAILED" => (daRow /\ (daPre.dir # "none" => daDir # "none"))
        /\ status = "SUCCESS" => (~daRow /\ daDir = "none")

\* ---------------------------------------------------------------- C39
\* C39: delete_bulk_sources_task on a list of source ids, when no deletion
\* faults, leaves the catalog and the file store as delete_source_task run
\* once for each id in list order leaves them.
C39_BulkSourcesAsEach ==
    (InBulkSources /\ pc = "done" /\ bs.faults = 0) =>
        [rows |-> bkRows, files |-> bkFiles] = DeleteSourceEach(bs.pre, bkIds, 1)

\* ---------------------------------------------------------------- C40
LoopReturned == LoopDone \/ pc = "done"
C40_State ==
    (InLoop /\ InLoopPc) =>
        /\ i <= Total /\ failedCnt <= i
        /\ LoopDone => (i = Total /\ failedCnt = fetchFaults)
C40_Step ==
    (InLoop /\ InLoopPc) =>
        \* the index moves on by one, and only past an episode that was
        \* fetched: counted as failed, or fetched without a fault
        /\ i' # i =>
              /\ i' = i + 1
              /\ pc \in {"pel_fetch", "pel_persist"}
              /\ (failedCnt' = failedCnt + 1) # (fetchFaults' = fetchFaults)
        /\ failedCnt' # failedCnt => (failedCnt' = failedCnt + 1 /\ i' = i + 1)
C40_Live ==
    /\ [](InLoop /\ InLoopPc => <>LoopReturned)
    /\ \A k \in 0..(MaxEps - 1) :
          []((InLoop /\ InLoopPc /\ i = k /\ k < Total) => <>(i = k + 1 \/ pc = "done"))
\* C40: the per-episode loop terminates for every episode list: no episode
\* is retried for ever, and when the loop returns normally every episode
\* has been attempted, each either counted as failed or fetched without a
\* fault.
C40_LoopTerminates == [](C40_State) /\ [][C40_Step]_vars /\ C40_Live
\* the loop has returned after a backoff, every episode of a full list passed
C40_Witness ==
    /\ InLoop /\ LoopDone /\ Total = MaxEps /\ i = Total
    /\ wait > 0 /\ failedCnt = 0 /\ added > 0

============================================================================
